---- MODULE Spec2Model ----
(***************************************************************************)
(* Model of src/src/cqueues.c: the IntQueue, FloatQueue and ByteQueue      *)
(* classes of the MicroPython module cqueue.  Each class is a fixed-size   *)
(* circular buffer which overwrites its oldest item when it is full.       *)
(*                                                                         *)
(* The variable `queue` is the C structure of one constructed queue, and   *)
(* there is one action per method of the class.  Each method is an         *)
(* operator from the structure (and the argument) to the structure after   *)
(* the call and the MicroPython object returned.  The other variables are  *)
(* observers: they record the calls made and run the abstract queue the    *)
(* documentation describes next to the code.                               *)
(***************************************************************************)
EXTENDS Integers, Sequences, FiniteSets, TLC

\* ------------------------------------------------------------------------
\* Bounds of the model.

\* Largest capacity a queue is constructed with.
MaxCap == 3
\* Values put are 1..MaxVal.
MaxVal == 2
\* Longest string handed to ByteQueue.put in one call.
MaxStrLen == 2
\* Longest run of puts, and of gets after them, the scenario observer records.
MaxPuts == 4
MaxGets == 4
\* Largest request, in bytes, the heap can satisfy.
HeapBytes == 32
\* Largest capacity of the queues whose calls run statement by statement.
MaxCapStmt == 2
\* Largest capacity of the queues whose calls are followed to their return.
MaxCapRun == 1

\* ------------------------------------------------------------------------
\* Machine arithmetic.

\* size_t and int32_t have the same width on the 32-bit targets of the
\* module.  The model keeps the two widths equal and scales them down to
\* WordBits bits, so that the counters can be enumerated: size_t is
\* 0 .. 2^WordBits - 1 and int32_t is -2^(WordBits-1) .. 2^(WordBits-1) - 1.
WordBits == 8

\* Arithmetic on size_t wraps around.
SizeT(x) == x % (2 ^ WordBits)

\* The conversion to int32_t, as in (int32_t)(self->num_items): the same
\* bits read as a signed number.
ToInt32(x) ==
    LET m == x % (2 ^ WordBits)
    IN  IF m >= 2 ^ (WordBits - 1) THEN m - 2 ^ WordBits ELSE m

\* ------------------------------------------------------------------------
\* Values.

Types == {"IntQueue", "FloatQueue", "ByteQueue"}

\* The arguments of put: integers, floats (here the floats 1.0 .. MaxVal,
\* which are exact in a C float) and the characters of a string.
Values == 1 .. MaxVal

\* What a storage element may hold before it is first written: m_new does
\* not initialise the array.
Uninit == {0, 85}

RECURSIVE SeqsUpTo(_, _)
SeqsUpTo(V, n) ==
    IF n = 0 THEN {<<>>}
    ELSE LET shorter == SeqsUpTo(V, n - 1)
         IN  shorter \cup {Append(s, v) : s \in {t \in shorter : Len(t) = n - 1}, v \in V}

\* The string of n characters v, v + 1, ..., going round the values.
Run(v, n) == [i \in 1 .. n |-> ((v + i - 2) % MaxVal) + 1]

\* The strings and bytes objects handed to ByteQueue.put: of every length
\* up to MaxStrLen, beginning with every value.
Strings == {Run(v, n) : v \in Values, n \in 0 .. MaxStrLen}

\* The conversion of a size_t to mp_int_t, the signed machine word which
\* mp_obj_new_int takes: the same bits read as a signed number.
mp_int_t(x) ==
    LET m == x % (2 ^ WordBits)
    IN  IF m >= 2 ^ (WordBits - 1) THEN m - 2 ^ WordBits ELSE m

\* MicroPython objects returned by the methods.
mp_const_none == [tag |-> "None"]
mp_obj_new_bool(b) == [tag |-> "bool", val |-> b]
mp_obj_new_int(i) == [tag |-> "int", val |-> i]
mp_obj_new_float(f) == [tag |-> "float", val |-> f]
\* mp_obj_new_bytes(&to_return, 1): a bytes object of length one.
mp_obj_new_bytes(b) == [tag |-> "bytes", val |-> <<b>>]

\* The objects the methods are called with: integers, floats, and strings
\* and bytes objects given by their characters.  GET_STR_DATA_LEN reads a
\* string as it reads a bytes object, so the strings tried are the short
\* ones.
IntObjs == {mp_obj_new_int(v) : v \in Values}
FloatObjs == {mp_obj_new_float(v) : v \in Values}
StrObjs == [tag : {"str"}, val : SeqsUpTo(Values, 1)]
BytesObjs == [tag : {"bytes"}, val : Strings]

\* The objects mp_obj_get_int converts are the integers and the two bools;
\* mp_obj_get_float converts these and the floats.  Given any other object
\* the conversion raises TypeError and does not return.
mp_obj_get_int_maybe(o) == o.tag \in {"int", "bool"}
mp_obj_get_float_maybe(o) == o.tag \in {"int", "bool", "float"}

\* mp_obj_get_int(to_put) and mp_obj_get_float(to_put), for the objects they
\* convert: False and True are 0 and 1, an integer is its value, and a
\* float is itself.
mp_obj_get_int(o) ==
    IF o.tag = "bool" THEN (IF o.val THEN 1 ELSE 0) ELSE o.val
mp_obj_get_float(o) ==
    IF o.tag = "bool" THEN (IF o.val THEN 1 ELSE 0) ELSE o.val

\* mp_obj_is_str_or_bytes(str_obj_in)
mp_obj_is_str_or_bytes(o) == o.tag \in {"str", "bytes"}

\* mp_raise_TypeError("Bytes or string required"): the call ends with the
\* exception instead of a result.
mp_raise_TypeError(msg) == [tag |-> "TypeError", msg |-> msg]

\* ------------------------------------------------------------------------
\* The structure and its storage.

\* p_data[i] = v.  A store outside the allocated array is undefined
\* behaviour; it does not land in the array, and PutIsWild reports it.
Store(p_data, i, v) ==
    IF i \in DOMAIN p_data THEN [p_data EXCEPT ![i] = v] ELSE p_data

\* sizeof(int32_t), sizeof(float) and sizeof(byte), in bytes.
sizeof_int32_t == 4
sizeof_float == 4
sizeof_byte == 1

\* m_new(byte, num_bytes): the arrays the allocation may return, none if it
\* fails.  A request for more than HeapBytes bytes fails; a request for 0
\* bytes yields an array without elements.  The memory is not initialised.
\* The array is given by its elements of elt bytes each.
m_new(num_bytes, elt) ==
    IF num_bytes > HeapBytes THEN {}
    ELSE [0 .. (num_bytes \div elt) - 1 -> Uninit]

\* The outcome of make_new when an exception ends the call: no object.
NoQueue ==
    [size |-> 0, write_idx |-> 0, read_idx |-> 0, p_data |-> <<>>,
     num_items |-> 0, max_full |-> 0]
Raised(exc) == [self |-> NoQueue, ret |-> [tag |-> exc], live |-> FALSE]

\* MP_OBJ_FROM_PTR(self): the new queue object.
Made(self) == [self |-> self, ret |-> [tag |-> "object"], live |-> TRUE]

\* m_new_obj: the structure as allocated, with size set from the argument
\* and nothing else initialised.
NewObjs(size) ==
    {[size |-> size, write_idx |-> g, read_idx |-> g, p_data |-> <<>>,
      num_items |-> g, max_full |-> g] : g \in Uninit}

\* ------------------------------------------------------------------------
\* class IntQueue.  Every method yields the structure after the call and the
\* object returned.

\* IntQueue_clear which leaves max_full as it is.
IntQueue_clear_keepmax(self) ==
    LET s1 == [self EXCEPT !.write_idx = 0]
        s2 == [s1 EXCEPT !.read_idx = 0]
        s3 == [s2 EXCEPT !.num_items = 0]
    IN  [self |-> s3, ret |-> mp_const_none]

\* IntQueue_clear which also writes zeros into the storage.
IntQueue_clear_zero(self) ==
    [self |-> [self EXCEPT !.write_idx = 0, !.read_idx = 0, !.num_items = 0,
                           !.max_full = 0,
                           !.p_data = [i \in DOMAIN self.p_data |-> 0]],
     ret |-> mp_const_none]

\* Set internal variables to indicate an empty queue.
IntQueue_clear(self) ==
    LET s1 == [self EXCEPT !.write_idx = 0]
        s2 == [s1 EXCEPT !.read_idx = 0]
        s3 == [s2 EXCEPT !.num_items = 0]
        s4 == [s3 EXCEPT !.max_full = 0]
    IN  [self |-> s4, ret |-> mp_const_none]

\* Create a new queue, allocating memory in which to store the data.  args
\* are the positional arguments.  mp_arg_check_num wants exactly one; then
\* m_new_obj allocates the structure, which may fail; then mp_obj_get_int
\* wants an integer; then m_new allocates the storage, which may fail.  The
\* outcomes are the exception raised, or the object for each array m_new may
\* return.
IntQueue_make_new(args) ==
    IF Len(args) # 1
    THEN {Raised("TypeError")}
    ELSE {Raised("MemoryError")} \cup
         IF ~mp_obj_get_int_maybe(args[1])
         THEN {Raised("TypeError")}
         ELSE LET size == SizeT(mp_obj_get_int(args[1]))
                  num_bytes == SizeT(sizeof_int32_t * size)
              IN  {Raised("MemoryError")} \cup
                  {Made([IntQueue_clear(self).self EXCEPT !.p_data = a]) :
                       self \in NewObjs(size), a \in m_new(num_bytes, sizeof_int32_t)}

\* True if there are any items in the queue, False if it is empty.
IntQueue_any(self) ==
    [self |-> self, ret |-> mp_obj_new_bool(self.num_items > 0)]

\* IntQueue_full comparing with > instead of >=.
IntQueue_full_gt(self) ==
    [self |-> self, ret |-> mp_obj_new_bool(self.num_items > self.size)]

\* True if the queue is full.
IntQueue_full(self) ==
    [self |-> self, ret |-> mp_obj_new_bool(self.num_items >= self.size)]

\* IntQueue_put_stores which moves the read pointer only if num_items > size, that
\* is never: the oldest item is not dropped.
IntQueue_put_nodrop(self, putted) ==
    LET s1 == [self EXCEPT !.p_data = Store(self.p_data, self.write_idx, putted)]
        s2 == [s1 EXCEPT !.write_idx = SizeT(s1.write_idx + 1)]
        s3 == IF s2.write_idx >= s2.size THEN [s2 EXCEPT !.write_idx = 0] ELSE s2
        s4 == IF s3.num_items > s3.size
              THEN LET r1 == [s3 EXCEPT !.read_idx = SizeT(s3.read_idx + 1)]
                   IN  IF r1.read_idx >= r1.size
                       THEN [r1 EXCEPT !.read_idx = 0] ELSE r1
              ELSE s3
        s5 == [s4 EXCEPT !.num_items = SizeT(s4.num_items + 1)]
        s6 == IF s5.num_items >= s5.size
              THEN [s5 EXCEPT !.num_items = s5.size] ELSE s5
        s7 == IF s6.num_items > s6.max_full
              THEN [s6 EXCEPT !.max_full = s6.num_items] ELSE s6
    IN  [self |-> s7, ret |-> mp_const_none]

\* The statements of put after the conversion, putted being its result.
IntQueue_put_stores(self, putted) ==
    LET \* self->p_data[self->write_idx] = putted; self->write_idx++;
        s1 == [self EXCEPT !.p_data = Store(self.p_data, self.write_idx, putted)]
        s2 == [s1 EXCEPT !.write_idx = SizeT(s1.write_idx + 1)]
        s3 == IF s2.write_idx >= s2.size THEN [s2 EXCEPT !.write_idx = 0] ELSE s2
        \* If the queue is full before writing, move the read pointer.
        s4 == IF s3.num_items >= s3.size
              THEN LET r1 == [s3 EXCEPT !.read_idx = SizeT(s3.read_idx + 1)]
                   IN  IF r1.read_idx >= r1.size
                       THEN [r1 EXCEPT !.read_idx = 0] ELSE r1
              ELSE s3
        \* Now increase the fillage and check again if the queue is full.
        s5 == [s4 EXCEPT !.num_items = SizeT(s4.num_items + 1)]
        s6 == IF s5.num_items >= s5.size
              THEN [s5 EXCEPT !.num_items = s5.size] ELSE s5
        s7 == IF s6.num_items > s6.max_full
              THEN [s6 EXCEPT !.max_full = s6.num_items] ELSE s6
    IN  [self |-> s7, ret |-> mp_const_none]

\* IntQueue_put which counts the item before it converts the argument.
IntQueue_put_countfirst(self, to_put) ==
    LET s1 == [self EXCEPT !.num_items = SizeT(self.num_items + 1)]
    IN  IF ~mp_obj_get_int_maybe(to_put)
        THEN [self |-> s1, ret |-> mp_raise_TypeError("can't convert to int")]
        ELSE IntQueue_put_stores(self, ToInt32(mp_obj_get_int(to_put)))

\* Put an item into the queue; overwrite old data if the queue is full.
\* The conversion of to_put comes first: given an object it does not
\* convert it raises TypeError, and no statement of put has run.
IntQueue_put(self, to_put) ==
    IF ~mp_obj_get_int_maybe(to_put)
    THEN [self |-> self, ret |-> mp_raise_TypeError("can't convert to int")]
    ELSE IntQueue_put_stores(self, ToInt32(mp_obj_get_int(to_put)))

\* IntQueue_get which does not move the read pointer.
IntQueue_get_noadvance(self) ==
    IF self.num_items = 0
    THEN [self |-> self, ret |-> mp_const_none]
    ELSE LET to_return == self.p_data[self.read_idx]
             s3 == [self EXCEPT !.num_items = SizeT(self.num_items - 1)]
             s4 == IF ToInt32(s3.num_items) <= 0
                   THEN [s3 EXCEPT !.num_items = 0] ELSE s3
         IN  [self |-> s4, ret |-> mp_obj_new_int(to_return)]

\* A get which lowers max_full to the number of items left.
IntQueue_get_lowermax(self) ==
    IF self.num_items = 0
    THEN [self |-> self, ret |-> mp_const_none]
    ELSE LET to_return == self.p_data[self.read_idx]
             s1 == [self EXCEPT !.read_idx = SizeT(self.read_idx + 1)]
             s2 == IF s1.read_idx >= s1.size THEN [s1 EXCEPT !.read_idx = 0] ELSE s1
             s3 == [s2 EXCEPT !.num_items = SizeT(s2.num_items - 1)]
             s4 == IF ToInt32(s3.num_items) <= 0
                   THEN [s3 EXCEPT !.num_items = 0] ELSE s3
             s5 == [s4 EXCEPT !.max_full = s4.num_items]
         IN  [self |-> s5, ret |-> mp_obj_new_int(to_return)]

\* Get the oldest item of the queue, or None if the queue is empty.
IntQueue_get(self) ==
    IF self.num_items = 0
    THEN [self |-> self, ret |-> mp_const_none]
    ELSE LET to_return == self.p_data[self.read_idx]
             s1 == [self EXCEPT !.read_idx = SizeT(self.read_idx + 1)]
             s2 == IF s1.read_idx >= s1.size THEN [s1 EXCEPT !.read_idx = 0] ELSE s1
             s3 == [s2 EXCEPT !.num_items = SizeT(s2.num_items - 1)]
             s4 == IF ToInt32(s3.num_items) <= 0
                   THEN [s3 EXCEPT !.num_items = 0] ELSE s3
         IN  [self |-> s4, ret |-> mp_obj_new_int(to_return)]

\* The number of items in the queue, handed to mp_obj_new_int as an
\* mp_int_t.
IntQueue_available(self) ==
    [self |-> self, ret |-> mp_obj_new_int(mp_int_t(self.num_items))]

\* The maximum number of items which have been in the queue since it was
\* created or cleared, handed to mp_obj_new_int as an mp_int_t.
IntQueue_max_full(self) ==
    [self |-> self, ret |-> mp_obj_new_int(mp_int_t(self.max_full))]

\* ------------------------------------------------------------------------
\* class FloatQueue.

\* float putted = mp_obj_get_float(to_put): the conversion of mp_float_t to
\* float.  The arguments of the model are floats a C float holds exactly,
\* which the conversion returns as they are.
ToFloat(f) == f

\* FloatQueue_clear which also gives up the storage.
FloatQueue_clear_free(self) ==
    [self |-> [self EXCEPT !.num_items = 0, !.write_idx = 0, !.read_idx = 0,
                           !.max_full = 0, !.p_data = <<>>],
     ret |-> mp_const_none]

\* Set internal variables to indicate an empty queue.
FloatQueue_clear(self) ==
    LET s1 == [self EXCEPT !.write_idx = 0]
        s2 == [s1 EXCEPT !.read_idx = 0]
        s3 == [s2 EXCEPT !.num_items = 0]
        s4 == [s3 EXCEPT !.max_full = 0]
    IN  [self |-> s4, ret |-> mp_const_none]

\* Create a new queue, allocating memory in which to store the data.  args
\* are the positional arguments.  mp_arg_check_num wants exactly one; then
\* m_new_obj allocates the structure, which may fail; then mp_obj_get_int
\* wants an integer; then m_new allocates the storage, which may fail.  The
\* outcomes are the exception raised, or the object for each array m_new may
\* return.
FloatQueue_make_new(args) ==
    IF Len(args) # 1
    THEN {Raised("TypeError")}
    ELSE {Raised("MemoryError")} \cup
         IF ~mp_obj_get_int_maybe(args[1])
         THEN {Raised("TypeError")}
         ELSE LET size == SizeT(mp_obj_get_int(args[1]))
                  num_bytes == SizeT(sizeof_float * size)
              IN  {Raised("MemoryError")} \cup
                  {Made([FloatQueue_clear(self).self EXCEPT !.p_data = a]) :
                       self \in NewObjs(size), a \in m_new(num_bytes, sizeof_float)}

\* True if there are any items in the queue, False if it is empty.
FloatQueue_any(self) ==
    [self |-> self, ret |-> mp_obj_new_bool(self.num_items > 0)]

\* True if the queue is full.
FloatQueue_full(self) ==
    [self |-> self, ret |-> mp_obj_new_bool(self.num_items >= self.size)]

\* FloatQueue_put_stores which does not limit num_items to size.
FloatQueue_put_noclamp(self, putted) ==
    LET s1 == [self EXCEPT !.p_data = Store(self.p_data, self.write_idx, putted)]
        s2 == [s1 EXCEPT !.write_idx = SizeT(s1.write_idx + 1)]
        s3 == IF s2.write_idx >= s2.size THEN [s2 EXCEPT !.write_idx = 0] ELSE s2
        s4 == IF s3.num_items >= s3.size
              THEN LET r1 == [s3 EXCEPT !.read_idx = SizeT(s3.read_idx + 1)]
                   IN  IF r1.read_idx >= r1.size
                       THEN [r1 EXCEPT !.read_idx = 0] ELSE r1
              ELSE s3
        s5 == [s4 EXCEPT !.num_items = SizeT(s4.num_items + 1)]
        s7 == IF s5.num_items > s5.max_full
              THEN [s5 EXCEPT !.max_full = s5.num_items] ELSE s5
    IN  [self |-> s7, ret |-> mp_const_none]

\* FloatQueue_put_stores which stores the new num_items in max_full without
\* comparing the two.
FloatQueue_put_maxassign(self, putted) ==
    LET s1 == [self EXCEPT !.p_data = Store(self.p_data, self.write_idx, putted)]
        s2 == [s1 EXCEPT !.write_idx = SizeT(s1.write_idx + 1)]
        s3 == IF s2.write_idx >= s2.size THEN [s2 EXCEPT !.write_idx = 0] ELSE s2
        s4 == IF s3.num_items >= s3.size
              THEN LET r1 == [s3 EXCEPT !.read_idx = SizeT(s3.read_idx + 1)]
                   IN  IF r1.read_idx >= r1.size
                       THEN [r1 EXCEPT !.read_idx = 0] ELSE r1
              ELSE s3
        s5 == [s4 EXCEPT !.num_items = SizeT(s4.num_items + 1)]
        s6 == IF s5.num_items >= s5.size
              THEN [s5 EXCEPT !.num_items = s5.size] ELSE s5
        s7 == [s6 EXCEPT !.max_full = s6.num_items]
    IN  [self |-> s7, ret |-> mp_const_none]

\* FloatQueue_put_stores which tests for a full queue after it has increased
\* num_items, not before.
FloatQueue_put_droplate(self, putted) ==
    LET s1 == [self EXCEPT !.p_data = Store(self.p_data, self.write_idx, putted)]
        s2 == [s1 EXCEPT !.write_idx = SizeT(s1.write_idx + 1)]
        s3 == IF s2.write_idx >= s2.size THEN [s2 EXCEPT !.write_idx = 0] ELSE s2
        s5 == [s3 EXCEPT !.num_items = SizeT(s3.num_items + 1)]
        s4 == IF s5.num_items >= s5.size
              THEN LET r1 == [s5 EXCEPT !.read_idx = SizeT(s5.read_idx + 1)]
                   IN  IF r1.read_idx >= r1.size
                       THEN [r1 EXCEPT !.read_idx = 0] ELSE r1
              ELSE s5
        s6 == IF s4.num_items >= s4.size
              THEN [s4 EXCEPT !.num_items = s4.size] ELSE s4
        s7 == IF s6.num_items > s6.max_full
              THEN [s6 EXCEPT !.max_full = s6.num_items] ELSE s6
    IN  [self |-> s7, ret |-> mp_const_none]

\* The statements of put after the conversion, putted being its result.
FloatQueue_put_stores(self, putted) ==
    LET \* self->p_data[self->write_idx] = putted; self->write_idx++;
        s1 == [self EXCEPT !.p_data = Store(self.p_data, self.write_idx, putted)]
        s2 == [s1 EXCEPT !.write_idx = SizeT(s1.write_idx + 1)]
        s3 == IF s2.write_idx >= s2.size THEN [s2 EXCEPT !.write_idx = 0] ELSE s2
        \* If the queue is full before writing, move the read pointer.
        s4 == IF s3.num_items >= s3.size
              THEN LET r1 == [s3 EXCEPT !.read_idx = SizeT(s3.read_idx + 1)]
                   IN  IF r1.read_idx >= r1.size
                       THEN [r1 EXCEPT !.read_idx = 0] ELSE r1
              ELSE s3
        \* Now increase the fillage and check again if the queue is full.
        s5 == [s4 EXCEPT !.num_items = SizeT(s4.num_items + 1)]
        s6 == IF s5.num_items >= s5.size
              THEN [s5 EXCEPT !.num_items = s5.size] ELSE s5
        s7 == IF s6.num_items > s6.max_full
              THEN [s6 EXCEPT !.max_full = s6.num_items] ELSE s6
    IN  [self |-> s7, ret |-> mp_const_none]

\* Put an item into the queue; overwrite old data if the queue is full.
\* The conversion of to_put comes first: given an object it does not
\* convert it raises TypeError, and no statement of put has run.
FloatQueue_put(self, to_put) ==
    IF ~mp_obj_get_float_maybe(to_put)
    THEN [self |-> self, ret |-> mp_raise_TypeError("can't convert to float")]
    ELSE FloatQueue_put_stores(self, ToFloat(mp_obj_get_float(to_put)))

\* FloatQueue_get without the test for an empty queue.
FloatQueue_get_nocheck(self) ==
    LET to_return == IF self.read_idx \in DOMAIN self.p_data
                     THEN self.p_data[self.read_idx] ELSE 0
        s1 == [self EXCEPT !.read_idx = SizeT(self.read_idx + 1)]
        s2 == IF s1.read_idx >= s1.size THEN [s1 EXCEPT !.read_idx = 0] ELSE s1
        s3 == [s2 EXCEPT !.num_items = SizeT(s2.num_items - 1)]
        s4 == IF ToInt32(s3.num_items) <= 0
              THEN [s3 EXCEPT !.num_items = 0] ELSE s3
    IN  [self |-> s4, ret |-> mp_obj_new_float(to_return)]

\* A get which resets num_items when one item is left.
FloatQueue_get_clampone(self) ==
    IF self.num_items = 0
    THEN [self |-> self, ret |-> mp_const_none]
    ELSE LET to_return == self.p_data[self.read_idx]
             s1 == [self EXCEPT !.read_idx = SizeT(self.read_idx + 1)]
             s2 == IF s1.read_idx >= s1.size THEN [s1 EXCEPT !.read_idx = 0] ELSE s1
             s3 == [s2 EXCEPT !.num_items = SizeT(s2.num_items - 1)]
             s4 == IF ToInt32(s3.num_items) <= 1
                   THEN [s3 EXCEPT !.num_items = 0] ELSE s3
         IN  [self |-> s4, ret |-> mp_obj_new_float(to_return)]

\* Get the oldest item of the queue, or None if the queue is empty.
FloatQueue_get(self) ==
    IF self.num_items = 0
    THEN [self |-> self, ret |-> mp_const_none]
    ELSE LET to_return == self.p_data[self.read_idx]
             s1 == [self EXCEPT !.read_idx = SizeT(self.read_idx + 1)]
             s2 == IF s1.read_idx >= s1.size THEN [s1 EXCEPT !.read_idx = 0] ELSE s1
             s3 == [s2 EXCEPT !.num_items = SizeT(s2.num_items - 1)]
             s4 == IF ToInt32(s3.num_items) <= 0
                   THEN [s3 EXCEPT !.num_items = 0] ELSE s3
         IN  [self |-> s4, ret |-> mp_obj_new_float(to_return)]

\* The number of items in the queue, handed to mp_obj_new_int as an
\* mp_int_t.
FloatQueue_available(self) ==
    [self |-> self, ret |-> mp_obj_new_int(mp_int_t(self.num_items))]

\* The maximum number of items which have been in the queue since it was
\* created or cleared, handed to mp_obj_new_int as an mp_int_t.
FloatQueue_max_full(self) ==
    [self |-> self, ret |-> mp_obj_new_int(mp_int_t(self.max_full))]

\* ------------------------------------------------------------------------
\* class ByteQueue.

\* ByteQueue_clear which leaves read_idx as it is.
ByteQueue_clear_keepread(self) ==
    LET s1 == [self EXCEPT !.write_idx = 0]
        s3 == [s1 EXCEPT !.num_items = 0]
        s4 == [s3 EXCEPT !.max_full = 0]
    IN  [self |-> s4, ret |-> mp_const_none]

\* ByteQueue_clear which leaves write_idx as it is.
ByteQueue_clear_keepwrite(self) ==
    LET s2 == [self EXCEPT !.read_idx = 0]
        s3 == [s2 EXCEPT !.num_items = 0]
        s4 == [s3 EXCEPT !.max_full = 0]
    IN  [self |-> s4, ret |-> mp_const_none]

\* Set internal variables to indicate an empty queue.
ByteQueue_clear(self) ==
    LET s1 == [self EXCEPT !.write_idx = 0]
        s2 == [s1 EXCEPT !.read_idx = 0]
        s3 == [s2 EXCEPT !.num_items = 0]
        s4 == [s3 EXCEPT !.max_full = 0]
    IN  [self |-> s4, ret |-> mp_const_none]

\* Create a new queue, allocating memory in which to store the data.  args
\* are the positional arguments.  mp_arg_check_num wants exactly one; then
\* m_new_obj allocates the structure, which may fail; then mp_obj_get_int
\* wants an integer; then m_new allocates the storage, which may fail.  The
\* outcomes are the exception raised, or the object for each array m_new may
\* return.
ByteQueue_make_new(args) ==
    IF Len(args) # 1
    THEN {Raised("TypeError")}
    ELSE {Raised("MemoryError")} \cup
         IF ~mp_obj_get_int_maybe(args[1])
         THEN {Raised("TypeError")}
         ELSE LET size == SizeT(mp_obj_get_int(args[1]))
                  num_bytes == SizeT(sizeof_byte * size)
              IN  {Raised("MemoryError")} \cup
                  {Made([ByteQueue_clear(self).self EXCEPT !.p_data = a]) :
                       self \in NewObjs(size), a \in m_new(num_bytes, sizeof_byte)}

\* True if there are any items in the queue, False if it is empty.
ByteQueue_any(self) ==
    [self |-> self, ret |-> mp_obj_new_bool(self.num_items > 0)]

\* True if the queue is full.
ByteQueue_full(self) ==
    [self |-> self, ret |-> mp_obj_new_bool(self.num_items >= self.size)]

\* ByteQueue_put_iter which sets read_idx to 0 one position early.
ByteQueue_put_iter_wrapearly(self, ch) ==
    LET s1 == [self EXCEPT !.p_data = Store(self.p_data, self.write_idx, ch)]
        s2 == [s1 EXCEPT !.write_idx = SizeT(s1.write_idx + 1)]
        s3 == IF s2.write_idx >= s2.size THEN [s2 EXCEPT !.write_idx = 0] ELSE s2
        s4 == IF s3.num_items >= s3.size
              THEN LET r1 == [s3 EXCEPT !.read_idx = SizeT(s3.read_idx + 1)]
                   IN  IF r1.read_idx + 1 >= r1.size
                       THEN [r1 EXCEPT !.read_idx = 0] ELSE r1
              ELSE s3
        s5 == [s4 EXCEPT !.num_items = SizeT(s4.num_items + 1)]
        s6 == IF s5.num_items >= s5.size
              THEN [s5 EXCEPT !.num_items = s5.size] ELSE s5
        s7 == IF s6.num_items > s6.max_full
              THEN [s6 EXCEPT !.max_full = s6.num_items] ELSE s6
    IN  s7

\* One iteration of the loop of put: the character my_str[index] goes into
\* the queue, overwriting old data if the queue is full.
ByteQueue_put_iter(self, ch) ==
    LET s1 == [self EXCEPT !.p_data = Store(self.p_data, self.write_idx, ch)]
        s2 == [s1 EXCEPT !.write_idx = SizeT(s1.write_idx + 1)]
        s3 == IF s2.write_idx >= s2.size THEN [s2 EXCEPT !.write_idx = 0] ELSE s2
        s4 == IF s3.num_items >= s3.size
              THEN LET r1 == [s3 EXCEPT !.read_idx = SizeT(s3.read_idx + 1)]
                   IN  IF r1.read_idx >= r1.size
                       THEN [r1 EXCEPT !.read_idx = 0] ELSE r1
              ELSE s3
        s5 == [s4 EXCEPT !.num_items = SizeT(s4.num_items + 1)]
        s6 == IF s5.num_items >= s5.size
              THEN [s5 EXCEPT !.num_items = s5.size] ELSE s5
        s7 == IF s6.num_items > s6.max_full
              THEN [s6 EXCEPT !.max_full = s6.num_items] ELSE s6
    IN  s7

\* for (index = 0; index < str_len; index++): the structure after the
\* iterations index, index + 1, ..., str_len - 1.
RECURSIVE ByteQueue_put_loop(_, _, _)
ByteQueue_put_loop(self, my_str, index) ==
    IF index < Len(my_str)
    THEN ByteQueue_put_loop(ByteQueue_put_iter(self, my_str[index + 1]),
                            my_str, index + 1)
    ELSE self

\* ByteQueue_put whose loop starts at index 1, after the first character.
ByteQueue_put_skipfirst(self, str_obj_in) ==
    IF ~mp_obj_is_str_or_bytes(str_obj_in)
    THEN [self |-> self, ret |-> mp_raise_TypeError("Bytes or string required")]
    ELSE LET my_str == str_obj_in.val
         IN  [self |-> ByteQueue_put_loop(self, my_str, 1), ret |-> mp_const_none]

\* ByteQueue_put without the check of the argument's type: what is not
\* byte-like is read as having no characters.
ByteQueue_put_nocheck(self, str_obj_in) ==
    LET my_str == IF mp_obj_is_str_or_bytes(str_obj_in)
                  THEN str_obj_in.val ELSE <<>>
    IN  [self |-> ByteQueue_put_loop(self, my_str, 0), ret |-> mp_const_none]

\* Put characters into the queue; overwrite old data if the queue is full.
\* The input must be a string or a bytes object; GET_STR_DATA_LEN yields its
\* characters my_str and their number.
ByteQueue_put(self, str_obj_in) ==
    IF ~mp_obj_is_str_or_bytes(str_obj_in)
    THEN [self |-> self, ret |-> mp_raise_TypeError("Bytes or string required")]
    ELSE LET my_str == str_obj_in.val
         IN  [self |-> ByteQueue_put_loop(self, my_str, 0), ret |-> mp_const_none]

\* A get which leaves num_items as it is.
ByteQueue_get_keepcount(self) ==
    IF self.num_items = 0
    THEN [self |-> self, ret |-> mp_const_none]
    ELSE LET to_return == self.p_data[self.read_idx]
             s1 == [self EXCEPT !.read_idx = SizeT(self.read_idx + 1)]
             s2 == IF s1.read_idx >= s1.size THEN [s1 EXCEPT !.read_idx = 0] ELSE s1
         IN  [self |-> s2, ret |-> mp_obj_new_bytes(to_return)]

\* Get the oldest item of the queue, or None if the queue is empty.
ByteQueue_get(self) ==
    IF self.num_items = 0
    THEN [self |-> self, ret |-> mp_const_none]
    ELSE LET to_return == self.p_data[self.read_idx]
             s1 == [self EXCEPT !.read_idx = SizeT(self.read_idx + 1)]
             s2 == IF s1.read_idx >= s1.size THEN [s1 EXCEPT !.read_idx = 0] ELSE s1
             s3 == [s2 EXCEPT !.num_items = SizeT(s2.num_items - 1)]
             s4 == IF ToInt32(s3.num_items) <= 0
                   THEN [s3 EXCEPT !.num_items = 0] ELSE s3
         IN  [self |-> s4, ret |-> mp_obj_new_bytes(to_return)]

\* The number of items in the queue, handed to mp_obj_new_int as an
\* mp_int_t.
ByteQueue_available(self) ==
    [self |-> self, ret |-> mp_obj_new_int(mp_int_t(self.num_items))]

\* The maximum number of items which have been in the queue since it was
\* created or cleared, handed to mp_obj_new_int as an mp_int_t.
ByteQueue_max_full(self) ==
    [self |-> self, ret |-> mp_obj_new_int(mp_int_t(self.max_full))]

\* ------------------------------------------------------------------------
\* The methods of the class of a queue, looked up by type as the locals
\* dictionaries of the three classes do.

make_new(t, args) ==
    CASE t = "IntQueue" -> IntQueue_make_new(args)
      [] t = "FloatQueue" -> FloatQueue_make_new(args)
      [] t = "ByteQueue" -> ByteQueue_make_new(args)

clear(t, self) ==
    CASE t = "IntQueue" -> IntQueue_clear(self)
      [] t = "FloatQueue" -> FloatQueue_clear(self)
      [] t = "ByteQueue" -> ByteQueue_clear(self)

any(t, self) ==
    CASE t = "IntQueue" -> IntQueue_any(self)
      [] t = "FloatQueue" -> FloatQueue_any(self)
      [] t = "ByteQueue" -> ByteQueue_any(self)

full(t, self) ==
    CASE t = "IntQueue" -> IntQueue_full(self)
      [] t = "FloatQueue" -> FloatQueue_full(self)
      [] t = "ByteQueue" -> ByteQueue_full(self)

put(t, self, arg) ==
    CASE t = "IntQueue" -> IntQueue_put(self, arg)
      [] t = "FloatQueue" -> FloatQueue_put(self, arg)
      [] t = "ByteQueue" -> ByteQueue_put(self, arg)

get(t, self) ==
    CASE t = "IntQueue" -> IntQueue_get(self)
      [] t = "FloatQueue" -> FloatQueue_get(self)
      [] t = "ByteQueue" -> ByteQueue_get(self)

available(t, self) ==
    CASE t = "IntQueue" -> IntQueue_available(self)
      [] t = "FloatQueue" -> FloatQueue_available(self)
      [] t = "ByteQueue" -> ByteQueue_available(self)

max_full(t, self) ==
    CASE t = "IntQueue" -> IntQueue_max_full(self)
      [] t = "FloatQueue" -> FloatQueue_max_full(self)
      [] t = "ByteQueue" -> ByteQueue_max_full(self)

\* The arguments put is called with: an integer for an IntQueue, a float for
\* a FloatQueue; a string, a bytes object, or an object which is neither
\* for a ByteQueue.
PutArgs(t) ==
    CASE t = "IntQueue" -> IntObjs
      [] t = "FloatQueue" -> FloatObjs
      [] t = "ByteQueue" ->
            StrObjs \cup BytesObjs \cup {mp_obj_new_int(1), mp_const_none}

\* The elements one call of put hands to the queue, in order: the value of
\* the argument, or the characters of the string; none if the argument is
\* refused.
Elems(t, o) ==
    CASE t = "IntQueue" ->
            IF mp_obj_get_int_maybe(o) THEN <<mp_obj_get_int(o)>> ELSE <<>>
      [] t = "FloatQueue" ->
            IF mp_obj_get_float_maybe(o) THEN <<mp_obj_get_float(o)>> ELSE <<>>
      [] t = "ByteQueue" -> IF mp_obj_is_str_or_bytes(o) THEN o.val ELSE <<>>

\* The structure after the store of one element v and the moves of the
\* indices and counters which follow it.
Put1(t, self, v) ==
    CASE t = "IntQueue" -> IntQueue_put(self, mp_obj_new_int(v)).self
      [] t = "FloatQueue" -> FloatQueue_put(self, mp_obj_new_float(v)).self
      [] t = "ByteQueue" -> ByteQueue_put_iter(self, v)

\* The object get returns for the element v.
Wrap(t, v) ==
    CASE t = "IntQueue" -> mp_obj_new_int(v)
      [] t = "FloatQueue" -> mp_obj_new_float(v)
      [] t = "ByteQueue" -> mp_obj_new_bytes(v)

\* put stores outside the allocated array: some element of the call is
\* written at an index which is not an index of p_data.
RECURSIVE PutIsWild(_, _, _)
PutIsWild(t, self, elems) ==
    /\ elems # <<>>
    /\ \/ self.write_idx \notin DOMAIN self.p_data
       \/ PutIsWild(t, Put1(t, self, Head(elems)), Tail(elems))

\* ------------------------------------------------------------------------
\* The abstract queue of the documentation: a sequence of at most
\* `capacity` items, oldest first.

AbsPut1(s, v, capacity) ==
    IF Len(s) >= capacity THEN Tail(Append(s, v)) ELSE Append(s, v)

RECURSIVE AbsPut(_, _, _)
AbsPut(s, elems, capacity) ==
    IF elems = <<>> THEN s
    ELSE AbsPut(AbsPut1(s, Head(elems), capacity), Tail(elems), capacity)

\* What put returns: an argument which is not byte-like is an error of the
\* caller of the byte queue.
AbsPutRet(t, o) ==
    IF t = "ByteQueue" /\ o.tag \notin {"str", "bytes"}
    THEN [tag |-> "TypeError", msg |-> "Bytes or string required"]
    ELSE mp_const_none

AbsGet(t, s) ==
    IF s = <<>> THEN [S |-> s, ret |-> mp_const_none]
    ELSE [S |-> Tail(s), ret |-> Wrap(t, Head(s))]

Max(a, b) == IF a >= b THEN a ELSE b

\* ------------------------------------------------------------------------
\* Heap allocation by the objects the methods return.

\* The integers MicroPython keeps in the object word itself
\* (MP_SMALL_INT_FITS): all but the top two values of the sign range.
MP_SMALL_INT_FITS(i) ==
    -(2 ^ (WordBits - 2)) <= i /\ i < 2 ^ (WordBits - 2)

\* Whether making the object o allocates memory on the heap; both values
\* where it depends on the build.  None, True and False are constants; an
\* integer is allocated unless it is small; a float is a heap object in
\* MicroPython's default object representation (MICROPY_OBJ_REPR_A) and is
\* packed into the object word in others; a bytes object and an exception
\* are always allocated.
NewObjAllocs(o) ==
    CASE o.tag \in {"None", "bool"} -> {FALSE}
      [] o.tag = "int" -> {~MP_SMALL_INT_FITS(o.val)}
      [] o.tag = "float" -> {TRUE, FALSE}
      [] o.tag \in {"bytes", "TypeError"} -> {TRUE}

\* The argument recorded for a call without one.
NoArg == [tag |-> "noarg"]

\* ------------------------------------------------------------------------
\* State.

VARIABLES
    type,       \* the class of the queue: base.type
    queue,      \* the structure: size, write_idx, read_idx, p_data, num_items, max_full
    live,       \* make_new has returned the queue object
    op,         \* the method called last
    obj,        \* the object that call was given as its argument
    arg,        \* the elements that call handed to the queue, in order
    ret,        \* the object it returned
    fault,      \* a store outside the array has stopped the program
    wild,       \* observer: some call stored outside the array
    alloc,      \* observer: the last call allocated memory on the heap
    S,          \* observer: the abstract queue
    Sret,       \* observer: what the abstract queue returned to the last call
    peak,       \* observer: largest available() at the end of a call since make_new or clear
    phase,      \* observer: "put" while only puts were called since make_new,
                \*           "get" while only gets were called after those, else "off"
    puts,       \* observer: the elements put, in phases "put" and "get"
    gets,       \* observer: the objects returned by the gets of phase "get"
    pc,         \* the step the running put or get executes next, or "idle"
    my_str,     \* put: the elements to store (putted, or the characters my_str)
    index,      \* put: the number of elements stored so far (the loop's index)
    to_return,  \* get: the element loaded from the storage
    reg,        \* the value of a field which the running statement has loaded
                \* and not yet used; 0 when it holds none
    held,       \* the value of num_items which the running call loaded for
                \* its first test, and what the call has made of it since
    steps,      \* observer: the steps the running call has executed
    iters,      \* observer: the stores the running put has executed
    entry,      \* observer: the structure when the running call began
    dropped,    \* observer: a put has overwritten an item since make_new or clear
    counted,    \* observer: 0, or the iteration of the running call in which
                \*           num_items was last written
    twin,       \* a second queue, new when the first was last cleared
    tret,       \* what the last call returned on the twin
    isr,        \* the method the interrupt handler calls: "put", "get" or "none"
    build,      \* how the compiler has built put and get: "O0" or "Os"
    track       \* observer: which put wrote each storage element, the number
                \*           of elements put, and which puts' elements the
                \*           gets have returned

vars ==
    <<type, queue, live, op, obj, arg, ret, fault, wild, alloc,
      S, Sret, peak, phase, puts, gets,
      pc, my_str, index, to_return, reg, held, steps, iters, entry,
      dropped, counted, twin, tret, isr, build, track>>

\* The position and the local variables of a running put or get, with
\* their observers.
locals ==
    <<pc, my_str, index, to_return, reg, held, steps, iters, entry, counted>>

\* The twin queue, the interrupt handler and its observer.
shadow == <<twin, tret, isr, build, track>>

\* The observers before the first call.
InitObservers ==
    /\ arg = <<>>
    /\ fault = FALSE
    /\ wild = FALSE
    /\ alloc = FALSE
    /\ S = <<>>
    /\ Sret = mp_const_none
    /\ peak = 0
    /\ phase = "put"
    /\ puts = <<>>
    /\ gets = <<>>
    /\ pc = "idle"
    /\ my_str = <<>>
    /\ index = 0
    /\ to_return = 0
    /\ reg = 0
    /\ held = 0
    /\ steps = 0
    /\ iters = 0
    /\ entry = NoQueue
    /\ dropped = FALSE
    /\ counted = 0

\* The observer of the elements: stamp[i] is the number of the put which
\* wrote p_data[i], 0 for an element never written; nput is the number of
\* elements put; loaded is the stamp of the element a running get has
\* loaded; got is the sequence of the stamps of the elements returned; cut
\* says that the interrupt handler ran inside the running or last call;
\* mid says that it has run inside a statement of some call.
NoTrack ==
    [stamp |-> <<>>, nput |-> 0, loaded |-> 0, got |-> <<>>, cut |-> FALSE,
     mid |-> FALSE]

\* The observer after one more element was put and stored at index i.
Stamped(tr, i) ==
    [tr EXCEPT !.nput = @ + 1, !.stamp = Store(@, i, tr.nput + 1)]

\* The put which wrote the element at index i: 0 if no put wrote it, or if
\* i is no index of the array.
StampAt(tr, i) == IF i \in DOMAIN tr.stamp THEN tr.stamp[i] ELSE 0

\* No twin queue and no interrupt handler.
InitShadow ==
    /\ twin = NoQueue
    /\ tret = NoArg
    /\ isr = "none"
    /\ build = "O0"
    /\ track = NoTrack

\* A queue of capacity 0 .. MaxCap which make_new has returned.
InitQueue ==
    /\ type \in Types
    /\ \E capacity \in 0 .. MaxCap :
         /\ obj = mp_obj_new_int(capacity)
         /\ \E r \in make_new(type, <<obj>>) :
              r.live /\ queue = r.self /\ ret = r.ret /\ live = r.live
    /\ op = "make_new"
    /\ InitObservers

Init == InitQueue /\ InitShadow

\* The observers of the scenario stop recording.
PhaseOff == phase' = "off" /\ puts' = <<>> /\ gets' = <<>>

\* A call of method `name` which returned: the structure and the result are
\* those the method's code yields.
Returns(name, o, elems, r) ==
    /\ queue' = r.self
    /\ obj' = o
    /\ arg' = elems
    /\ ret' = r.ret
    /\ op' = name
    /\ alloc' \in NewObjAllocs(r.ret)
    /\ peak' = IF name = "clear" THEN r.self.num_items
               ELSE Max(peak, r.self.num_items)
    /\ dropped' = CASE name = "clear" -> FALSE
                    [] name = "put" ->
                          dropped \/ Len(S) + Len(elems) > queue.size
                    [] OTHER -> dropped
    /\ UNCHANGED <<type, live, fault>>
    /\ UNCHANGED locals
    /\ UNCHANGED shadow

CallPut ==
    /\ live /\ ~fault /\ pc = "idle"
    /\ \E to_put \in PutArgs(type) :
         LET elems == Elems(type, to_put)
         IN  /\ wild' = (wild \/ PutIsWild(type, queue, elems))
             /\ \/ /\ Returns("put", to_put, elems, put(type, queue, to_put))
                   /\ S' = AbsPut(S, elems, queue.size)
                   /\ Sret' = AbsPutRet(type, to_put)
                   /\ IF phase = "put" /\ Len(puts) + Len(elems) <= MaxPuts
                      THEN puts' = puts \o elems /\ UNCHANGED <<phase, gets>>
                      ELSE PhaseOff
                \* The store outside the array stops the program instead.
                \/ /\ PutIsWild(type, queue, elems)
                   /\ fault' = TRUE
                   /\ op' = "put"
                   /\ obj' = to_put
                   /\ arg' = elems
                   /\ ret' = [tag |-> "fault"]
                   /\ alloc' = FALSE
                   /\ UNCHANGED <<type, queue, live, S, Sret, peak, phase, puts, gets>>
                   /\ UNCHANGED <<locals, dropped, shadow>>

CallGet ==
    /\ live /\ ~fault /\ pc = "idle"
    /\ Returns("get", NoArg, <<>>, get(type, queue))
    /\ UNCHANGED wild
    /\ S' = AbsGet(type, S).S
    /\ Sret' = AbsGet(type, S).ret
    /\ IF phase \in {"put", "get"} /\ Len(gets) < MaxGets
       THEN phase' = "get" /\ gets' = Append(gets, ret') /\ UNCHANGED puts
       ELSE PhaseOff

CallClear ==
    /\ live /\ ~fault /\ pc = "idle"
    /\ Returns("clear", NoArg, <<>>, clear(type, queue))
    /\ UNCHANGED wild
    /\ S' = <<>>
    /\ Sret' = mp_const_none
    /\ PhaseOff

CallAny ==
    /\ live /\ ~fault /\ pc = "idle"
    /\ Returns("any", NoArg, <<>>, any(type, queue))
    /\ UNCHANGED <<wild, S, Sret, phase, puts, gets>>

CallFull ==
    /\ live /\ ~fault /\ pc = "idle"
    /\ Returns("full", NoArg, <<>>, full(type, queue))
    /\ UNCHANGED <<wild, S, Sret, phase, puts, gets>>

CallAvailable ==
    /\ live /\ ~fault /\ pc = "idle"
    /\ Returns("available", NoArg, <<>>, available(type, queue))
    /\ UNCHANGED <<wild, S, Sret, phase, puts, gets>>

CallMaxFull ==
    /\ live /\ ~fault /\ pc = "idle"
    /\ Returns("max_full", NoArg, <<>>, max_full(type, queue))
    /\ UNCHANGED <<wild, S, Sret, phase, puts, gets>>

Next ==
    \/ CallPut \/ CallGet \/ CallClear
    \/ CallAny \/ CallFull \/ CallAvailable \/ CallMaxFull

Spec == Init /\ [][Next]_vars

\* ------------------------------------------------------------------------
\* put called with any object: those a queue of the class takes, and None,
\* a bool, a string, an integer and a float, of which each class converts
\* some and refuses the others.  The queues are the small ones.

OtherObjs ==
    {mp_const_none, mp_obj_new_bool(TRUE), [tag |-> "str", val |-> <<1>>],
     mp_obj_new_int(1), mp_obj_new_float(1)}

AnyArgs(t) == PutArgs(t) \cup OtherObjs

InitArg == Init /\ queue.size <= MaxCapStmt

\* q.put(to_put) as in CallPut, with any object as to_put.
ArgPut ==
    /\ live /\ ~fault /\ pc = "idle"
    /\ \E to_put \in AnyArgs(type) :
         LET elems == Elems(type, to_put)
         IN  /\ wild' = (wild \/ PutIsWild(type, queue, elems))
             /\ \/ /\ Returns("put", to_put, elems, put(type, queue, to_put))
                   /\ S' = AbsPut(S, elems, queue.size)
                   /\ Sret' = AbsPutRet(type, to_put)
                   /\ IF phase = "put" /\ Len(puts) + Len(elems) <= MaxPuts
                      THEN puts' = puts \o elems /\ UNCHANGED <<phase, gets>>
                      ELSE PhaseOff
                \* The store outside the array stops the program instead.
                \/ /\ PutIsWild(type, queue, elems)
                   /\ fault' = TRUE
                   /\ op' = "put"
                   /\ obj' = to_put
                   /\ arg' = elems
                   /\ ret' = [tag |-> "fault"]
                   /\ alloc' = FALSE
                   /\ UNCHANGED <<type, queue, live, S, Sret, peak, phase, puts, gets>>
                   /\ UNCHANGED <<locals, dropped, shadow>>

NextArg == ArgPut \/ CallGet \/ CallClear

SpecArg == InitArg /\ [][NextArg]_vars

\* ------------------------------------------------------------------------
\* Construction: the call of the class with its arguments, followed by the
\* calls which store nothing.

\* The capacities tried: the small ones, the negative ones, the first one
\* whose storage the heap cannot hold, and those at which the number of
\* bytes of an integer or float queue exceeds what a size_t can hold.
CapValues ==
    (0 .. MaxCap) \cup
    { -(2 ^ (WordBits - 2)), 1 - 2 ^ (WordBits - 2), -1,
      HeapBytes + 1, 2 ^ (WordBits - 2), 2 ^ (WordBits - 1) - 1 }

\* The argument of the constructor: an integer, an object which is not an
\* integer, or none at all.
NewArgs ==
    {mp_obj_new_int(c) : c \in CapValues} \cup {[tag |-> "str", val |-> <<>>], NoArg}

InitNew ==
    /\ type \in Types
    /\ obj \in NewArgs
    /\ queue = NoQueue
    /\ live = FALSE
    /\ op = "start"
    /\ ret = mp_const_none
    /\ InitObservers
    /\ InitShadow

\* IntQueue(...), FloatQueue(...), ByteQueue(...): make_new runs whole.
Construct ==
    /\ op = "start"
    /\ \E r \in make_new(type, IF obj = NoArg THEN <<>> ELSE <<obj>>) :
         /\ queue' = r.self
         /\ ret' = r.ret
         /\ live' = r.live
    /\ op' = "make_new"
    /\ UNCHANGED <<type, obj, arg, fault, wild, alloc,
                   S, Sret, peak, phase, puts, gets>>
    /\ UNCHANGED <<locals, dropped, shadow>>

NextNew ==
    \/ Construct \/ CallGet
    \/ CallAny \/ CallFull \/ CallAvailable \/ CallMaxFull

SpecNew == InitNew /\ [][NextNew]_vars

\* ------------------------------------------------------------------------
\* get on byte queues of the sizes around the largest positive int32_t, and
\* of the small ones, on a build whose heap holds the storage.  A byte
\* queue is the class whose storage has size elements at every one of
\* these sizes: sizeof(byte) * size is size.  The queue has been made and
\* size or size + 1 puts of one byte have been called on it; the gets
\* follow.

GetSizes ==
    {1, 2, 2 ^ (WordBits - 1) - 1, 2 ^ (WordBits - 1), 2 ^ (WordBits - 1) + 1,
     2 ^ (WordBits - 1) + 2}

\* The structure after n puts of the element 1, each as put executes it:
\* the first half of the puts, then the others on the structure they left.
RECURSIVE PutN(_, _, _)
PutN(t, self, n) ==
    CASE n = 0 -> self
      [] n = 1 -> Put1(t, self, 1)
      [] OTHER ->
            CHOOSE after \in {PutN(t, half, n - n \div 2) :
                                 half \in {PutN(t, self, n \div 2)}} : TRUE

\* The structure ByteQueue_make_new returns for the capacity size where
\* the heap holds the storage: the new object cleared, with a storage of
\* sizeof(byte) * size bytes.  make_new does not write the storage: its
\* elements hold what the memory m_new returned held, here the value fresh
\* in every byte.
NewByteQueue(size, fresh) ==
    LET num_bytes == SizeT(sizeof_byte * size)
    IN  [ByteQueue_clear(CHOOSE self \in NewObjs(size) : TRUE).self
            EXCEPT !.p_data = [i \in 0 .. (num_bytes \div sizeof_byte) - 1 |-> fresh]]

InitGet ==
    /\ type = "ByteQueue"
    /\ \E size \in GetSizes : \E n \in {size, size + 1} : \E fresh \in Uninit :
         /\ queue = PutN(type, NewByteQueue(size, fresh), n)
         /\ S = [i \in 1 .. size |-> 1]
         /\ peak = size
         /\ dropped = (n > size)
         /\ op = "put"
         /\ obj = Wrap(type, 1)
         /\ arg = <<1>>
         /\ ret = mp_const_none
         /\ Sret = ret
    /\ live = TRUE
    /\ fault = FALSE /\ wild = FALSE /\ alloc = FALSE
    /\ phase = "off" /\ puts = <<>> /\ gets = <<>>
    /\ pc = "idle" /\ my_str = <<>> /\ index = 0 /\ to_return = 0 /\ reg = 0
    /\ held = 0
    /\ steps = 0 /\ iters = 0 /\ entry = NoQueue /\ counted = 0
    /\ InitShadow

SpecGet == InitGet /\ [][CallGet]_vars

TypeOK ==
    /\ type \in Types
    /\ queue.size \in 0 .. MaxCap
    /\ DOMAIN queue.p_data = 0 .. queue.size - 1
    /\ fault \in BOOLEAN
    /\ live \in BOOLEAN
    /\ wild \in BOOLEAN
    /\ alloc \in BOOLEAN

\* ------------------------------------------------------------------------
\* put and get step by step.  The fields of the structure are not
\* volatile and no statement is a critical section, so each statement is
\* the loads and stores of its fields in the order of the abstract machine:
\* the test of an if is a step and the assignment it guards is another, an
\* increment or decrement is the load of the field and then the store of
\* the value loaded plus or minus one, and line 208 loads read_idx and then
\* the element at that index.  The states between two statements of a
\* call, and those between two such steps of a statement, are states of
\* the model.  size is never written, so its loads are no steps.
\*
\* The fields are plain memory, so the compiler decides how often a
\* statement goes to memory.  The build "O0" loads a field anew in every
\* statement which reads it and stores in every statement which assigns.
\* The build "Os" keeps what it has loaded in a register: num_items, loaded
\* for the first test (lines 170, 203), is not loaded again by the call,
\* read_idx, loaded for line 208, is not loaded again for line 211, and an
\* increment or decrement and the correction which follows it (lines
\* 162-166, 172-176, 180-184, 211-215, 217-221) are computed in the
\* register and stored once.  Without a handler the two builds leave the
\* same structure.

Builds == {"O0", "Os"}

Optimised == build = "Os"

\* The index after i in a queue self: i + 1, or 0 when that is not less
\* than size.
Wrapped(self, i) == IF SizeT(i + 1) >= self.size THEN 0 ELSE SizeT(i + 1)

\* A queue of capacity 0 .. MaxCapStmt with no call running.
InitStmt == Init /\ queue.size <= MaxCapStmt

\* What a call leaves alone while it runs.
Observers ==
    <<type, live, arg, S, Sret, peak, phase, puts, gets, dropped,
      twin, tret, isr, build>>

\* The result of a call which has begun and not returned.
Pending == [tag |-> "pending"]

\* The element put stores for the value v of its argument: putted, or a
\* character of my_str.
Putted(t, v) ==
    CASE t = "IntQueue" -> ToInt32(v)
      [] t = "FloatQueue" -> ToFloat(v)
      [] t = "ByteQueue" -> v

\* The step at the label `from`, which leaves the structure as self,
\* writes num_items: the stores of the increment, of the decrement and of
\* the two corrections.
WritesCount(from, self) ==
    \/ from \in {"put_ninc_st", "get_ndec_st", "put_nclamp_st", "get_nclamp_st"}
    \/ Optimised /\ from \in {"put_ninc", "get_ndec"}
    \/ self.num_items # queue.num_items

\* The step at the label `from` writes write_idx or read_idx.
WritesCursor(from) ==
    \/ from \in {"put_winc", "put_rinc_st", "put_rwrap_st",
                  "get_rinc_st", "get_rwrap_st"}
    \/ Optimised /\ from = "get_rinc"
    \/ from = "put_wwrap" /\ queue.write_idx >= queue.size

\* The number of the iteration the running call is in: the stores done by
\* a put, 1 in a get.
Iteration == IF op = "get" THEN 1 ELSE iters

\* With an interrupt handler the observer of the elements is on, and the
\* program calls the method which the handler does not call.
Tracking == isr # "none"

\* One step of the running call: from the label `from` to the label
\* `to`, leaving the structure as self.
StmtCore(from, to, self) ==
    /\ pc = from /\ ~fault
    /\ pc' = to
    /\ queue' = self
    /\ steps' = steps + 1
    /\ counted' = IF WritesCount(from, self) THEN Iteration ELSE counted
    /\ UNCHANGED Observers

\* A step which neither stores nor loads nor returns an element.
Stmt(from, to, self) ==
    /\ StmtCore(from, to, self)
    /\ UNCHANGED track

\* put is called.  A byte queue refuses an argument which is not byte-like;
\* else the argument is converted and the loop of a byte queue tests
\* index < str_len for index 0.
BeginPut ==
    /\ live /\ ~fault /\ pc = "idle"
    /\ isr # "put"
    /\ \E to_put \in PutArgs(type) :
         /\ Tracking => track.nput + Len(Elems(type, to_put)) <= MaxPuts
         /\ obj' = to_put
         /\ op' = "put"
         /\ IF type = "ByteQueue" /\ ~mp_obj_is_str_or_bytes(to_put)
            THEN /\ ret' = mp_raise_TypeError("Bytes or string required")
                 /\ alloc' \in NewObjAllocs(ret')
                 /\ my_str' = <<>>
                 /\ pc' = "idle"
            ELSE /\ ret' = Pending
                 /\ alloc' = FALSE
                 /\ my_str' = [i \in 1 .. Len(Elems(type, to_put)) |->
                                  Putted(type, Elems(type, to_put)[i])]
                 /\ pc' = IF Len(my_str') > 0 THEN "put_store" ELSE "put_ret"
    /\ index' = 0
    /\ steps' = 0
    /\ iters' = 0
    /\ entry' = queue
    /\ counted' = 0
    /\ track' = [track EXCEPT !.cut = FALSE]
    /\ UNCHANGED <<queue, fault, wild, to_return, reg, held>>
    /\ UNCHANGED Observers

\* self->p_data[self->write_idx] = putted.  A write_idx which is no index of
\* the array makes the store undefined: it goes to memory outside the
\* array, or it stops the program.
PutStore ==
    \/ /\ StmtCore("put_store", "put_winc",
                   [queue EXCEPT !.p_data =
                       Store(queue.p_data, queue.write_idx, my_str[index + 1])])
       /\ wild' = (wild \/ queue.write_idx \notin DOMAIN queue.p_data)
       /\ iters' = iters + 1
       /\ track' = IF Tracking THEN Stamped(track, queue.write_idx) ELSE track
       /\ UNCHANGED <<op, obj, ret, fault, alloc,
                      my_str, index, to_return, reg, held, entry>>
    \/ /\ pc = "put_store" /\ ~fault
       /\ queue.write_idx \notin DOMAIN queue.p_data
       /\ fault' = TRUE
       /\ wild' = TRUE
       /\ ret' = [tag |-> "fault"]
       /\ UNCHANGED <<queue, op, obj, alloc, track>>
       /\ UNCHANGED locals
       /\ UNCHANGED Observers

\* What the steps after the store leave alone.
StmtFrame ==
    UNCHANGED <<op, obj, ret, fault, wild, alloc,
                my_str, index, to_return, held, iters, entry>>

\* The test of an if: the step goes to the label yes when the condition
\* holds and to the label no when it does not, and writes nothing.
Test(from, cond, yes, no) ==
    /\ Stmt(from, IF cond THEN yes ELSE no, queue)
    /\ UNCHANGED reg

\* The load of a field whose value is v.
Load(from, to, v) ==
    /\ Stmt(from, to, queue)
    /\ reg' = v

\* A store which leaves the structure as self; the value loaded is used.
Assign(from, to, self) ==
    /\ Stmt(from, to, self)
    /\ reg' = 0

\* self->write_idx++.  No other context reads or writes write_idx while a
\* put runs (the handler, when there is one, calls get), so the load and
\* the store are one step.
PutWriteInc ==
    /\ ~Optimised
    /\ Assign("put_winc", "put_wwrap",
              [queue EXCEPT !.write_idx = SizeT(queue.write_idx + 1)])
    /\ StmtFrame

\* if (self->write_idx >= self->size) self->write_idx = 0: one step, as no
\* other context reads or writes write_idx
PutWriteWrap ==
    /\ Assign("put_wwrap", "put_full",
              IF queue.write_idx >= queue.size
              THEN [queue EXCEPT !.write_idx = 0] ELSE queue)
    /\ StmtFrame

\* if (self->num_items >= self->size).  The value of num_items loaded for
\* the test is the one held.
PutFullTest ==
    /\ Stmt("put_full",
            IF queue.num_items >= queue.size THEN "put_rinc" ELSE "put_ninc",
            queue)
    /\ held' = queue.num_items
    /\ UNCHANGED <<op, obj, ret, fault, wild, alloc,
                   my_str, index, to_return, reg, iters, entry>>

\* self->read_idx++: the load of read_idx
PutReadInc ==
    /\ Load("put_rinc", "put_rinc_st", queue.read_idx)
    /\ StmtFrame

\* self->read_idx++: the store of the value loaded plus one
PutReadIncStore ==
    /\ ~Optimised
    /\ Assign("put_rinc_st", "put_rwrap",
              [queue EXCEPT !.read_idx = SizeT(reg + 1)])
    /\ StmtFrame

\* if (self->read_idx >= self->size)
PutReadWrap ==
    /\ Test("put_rwrap", queue.read_idx >= queue.size, "put_rwrap_st", "put_ninc")
    /\ StmtFrame

\* self->read_idx = 0
PutReadWrapStore ==
    /\ Assign("put_rwrap_st", "put_ninc", [queue EXCEPT !.read_idx = 0])
    /\ StmtFrame

\* self->num_items++: the load of num_items
PutCountInc ==
    /\ ~Optimised
    /\ Load("put_ninc", "put_ninc_st", queue.num_items)
    /\ StmtFrame

\* self->num_items++: the store of the value loaded plus one
PutCountIncStore ==
    /\ Assign("put_ninc_st", "put_nclamp",
              [queue EXCEPT !.num_items = SizeT(reg + 1)])
    /\ StmtFrame

\* if (self->num_items >= self->size)
PutCountClamp ==
    /\ Test("put_nclamp", queue.num_items >= queue.size, "put_nclamp_st", "put_max")
    /\ StmtFrame

\* self->num_items = self->size
PutCountClampStore ==
    /\ Assign("put_nclamp_st", "put_max", [queue EXCEPT !.num_items = queue.size])
    /\ StmtFrame

\* The label after the last statement of the body of put: in a byte queue
\* the end of the loop's body follows.
AfterMax == IF type = "ByteQueue" THEN "put_loop" ELSE "put_ret"

\* if (self->num_items > self->max_full)
PutMaxFull ==
    /\ ~Optimised
    /\ Test("put_max", queue.num_items > queue.max_full, "put_max_st", AfterMax)
    /\ StmtFrame

\* self->max_full = self->num_items.  num_items is loaded again; no other
\* context reads or writes max_full while a put runs, so the load and the
\* store are one step.
PutMaxFullStore ==
    /\ Assign("put_max_st", AfterMax, [queue EXCEPT !.max_full = queue.num_items])
    /\ StmtFrame

\* A loop which ends before the last element: its test is index <
\* str_len - 1.
PutLoop_early ==
    /\ Stmt("put_loop",
            IF index + 1 < Len(my_str) - 1 THEN "put_store" ELSE "put_ret", queue)
    /\ index' = index + 1
    /\ UNCHANGED <<op, obj, ret, fault, wild, alloc,
                   my_str, to_return, reg, held, iters, entry>>

\* index++ and the test index < str_len of the for loop.
PutLoop ==
    /\ Stmt("put_loop",
            IF index + 1 < Len(my_str) THEN "put_store" ELSE "put_ret", queue)
    /\ index' = index + 1
    /\ UNCHANGED <<op, obj, ret, fault, wild, alloc,
                   my_str, to_return, reg, held, iters, entry>>

\* return mp_const_none
PutReturn ==
    /\ Stmt("put_ret", "idle", queue)
    /\ ret' = mp_const_none
    /\ held' = 0
    /\ UNCHANGED <<op, obj, fault, wild, alloc,
                   my_str, index, to_return, reg, iters, entry>>

\* get is called.
BeginGet ==
    /\ live /\ ~fault /\ pc = "idle"
    /\ isr # "get"
    /\ Tracking => Len(track.got) < MaxGets
    /\ obj' = NoArg
    /\ op' = "get"
    /\ ret' = Pending
    /\ alloc' = FALSE
    /\ pc' = "get_test"
    /\ steps' = 0
    /\ iters' = 0
    /\ entry' = queue
    /\ counted' = 0
    /\ track' = [track EXCEPT !.cut = FALSE]
    /\ UNCHANGED <<queue, fault, wild, my_str, index, to_return, reg, held>>
    /\ UNCHANGED Observers

\* What the memory beyond the array may hold: what it held when it was
\* allocated, or an element which a put has stored there.
Beyond == Uninit \cup Values

\* What self->p_data[i] may yield: the element, or, for an i which is no
\* index of the array, whatever lies beyond it.
Loads(self, i) ==
    IF i \in DOMAIN self.p_data THEN {self.p_data[i]} ELSE Beyond

\* A get which decrements num_items when it finds the queue not empty,
\* before it moves read_idx.
GetTest_countfirst ==
    /\ IF queue.num_items = 0
       THEN /\ Stmt("get_test", "idle", queue)
            /\ ret' = mp_const_none
            /\ UNCHANGED held
       ELSE /\ Stmt("get_test", "get_idx",
                    [queue EXCEPT !.num_items = SizeT(queue.num_items - 1)])
            /\ held' = queue.num_items
            /\ UNCHANGED ret
    /\ UNCHANGED <<op, obj, fault, wild, alloc,
                   my_str, index, to_return, reg, iters, entry>>

\* if (self->num_items == 0) return mp_const_none.  The value of num_items
\* loaded for the test is the one held.
GetTest ==
    /\ IF queue.num_items = 0
       THEN /\ Stmt("get_test", "idle", queue)
            /\ ret' = mp_const_none
            /\ UNCHANGED held
       ELSE /\ Stmt("get_test", "get_idx", queue)
            /\ held' = queue.num_items
            /\ UNCHANGED ret
    /\ UNCHANGED <<op, obj, fault, wild, alloc,
                   my_str, index, to_return, reg, iters, entry>>

\* to_return = self->p_data[self->read_idx]: the load of read_idx
GetIndex ==
    /\ Load("get_idx", "get_load", queue.read_idx)
    /\ StmtFrame

\* to_return = self->p_data[self->read_idx]: the load of the element at the
\* index loaded, which stays where it is
GetLoad ==
    /\ StmtCore("get_load", "get_rinc", queue)
    /\ to_return' \in Loads(queue, reg)
    /\ UNCHANGED <<reg, held>>
    /\ track' = IF Tracking
                THEN [track EXCEPT !.loaded = StampAt(track, reg)]
                ELSE track
    /\ UNCHANGED <<op, obj, ret, fault, wild, alloc, my_str, index, iters, entry>>

\* self->read_idx++: the load of read_idx
GetReadInc ==
    /\ ~Optimised
    /\ Load("get_rinc", "get_rinc_st", queue.read_idx)
    /\ StmtFrame

\* self->read_idx++: the store of the value loaded plus one
GetReadIncStore ==
    /\ Assign("get_rinc_st", "get_rwrap",
              [queue EXCEPT !.read_idx = SizeT(reg + 1)])
    /\ StmtFrame

\* if (self->read_idx >= self->size)
GetReadWrap ==
    /\ Test("get_rwrap", queue.read_idx >= queue.size, "get_rwrap_st", "get_ndec")
    /\ StmtFrame

\* self->read_idx = 0
GetReadWrapStore ==
    /\ Assign("get_rwrap_st", "get_ndec", [queue EXCEPT !.read_idx = 0])
    /\ StmtFrame

\* self->num_items--: the load of num_items
GetCountDec ==
    /\ ~Optimised
    /\ Load("get_ndec", "get_ndec_st", queue.num_items)
    /\ StmtFrame

\* self->num_items--: the store of the value loaded minus one
GetCountDecStore ==
    /\ Assign("get_ndec_st", "get_nclamp",
              [queue EXCEPT !.num_items = SizeT(reg - 1)])
    /\ StmtFrame

\* if ((int32_t)(self->num_items) <= 0)
GetCountClamp ==
    /\ Test("get_nclamp", ToInt32(queue.num_items) <= 0, "get_nclamp_st", "get_ret")
    /\ StmtFrame

\* self->num_items = 0
GetCountClampStore ==
    /\ Assign("get_nclamp_st", "get_ret", [queue EXCEPT !.num_items = 0])
    /\ StmtFrame

\* return mp_obj_new_int(to_return), mp_obj_new_float(to_return) or
\* mp_obj_new_bytes(&to_return, 1)
GetReturn ==
    /\ StmtCore("get_ret", "idle", queue)
    /\ track' = IF Tracking THEN [track EXCEPT !.got = Append(@, track.loaded)]
                ELSE track
    /\ ret' = Wrap(type, to_return)
    /\ alloc' \in NewObjAllocs(ret')
    /\ held' = 0
    /\ UNCHANGED <<op, obj, fault, wild, my_str, index, to_return, reg, iters, entry>>

\* The steps of the body of put.
PutBody ==
    \/ PutStore \/ PutWriteInc \/ PutWriteWrap
    \/ PutFullTest \/ PutReadInc \/ PutReadIncStore
    \/ PutReadWrap \/ PutReadWrapStore
    \/ PutCountInc \/ PutCountIncStore \/ PutCountClamp \/ PutCountClampStore
    \/ PutMaxFull \/ PutMaxFullStore

\* The steps of get after its test.
GetBody ==
    \/ GetIndex \/ GetLoad \/ GetReadInc \/ GetReadIncStore
    \/ GetReadWrap \/ GetReadWrapStore
    \/ GetCountDec \/ GetCountDecStore \/ GetCountClamp \/ GetCountClampStore

\* The steps of put in the build "Os" where they are not those of "O0".

\* self->write_idx++; if (self->write_idx >= self->size) self->write_idx =
\* 0: the store of the index after write_idx
PutWriteIncOpt ==
    /\ Optimised
    /\ Assign("put_winc", "put_full",
              [queue EXCEPT !.write_idx = Wrapped(queue, queue.write_idx)])
    /\ StmtFrame

\* self->read_idx++; if (self->read_idx >= self->size) self->read_idx = 0:
\* the store of the index after the one loaded
PutReadIncOpt ==
    /\ Optimised
    /\ Assign("put_rinc_st", "put_ninc",
              [queue EXCEPT !.read_idx = Wrapped(queue, reg)])
    /\ StmtFrame

\* self->num_items++; if (self->num_items >= self->size) self->num_items =
\* self->size: the store of the value held plus one, or of size; the value
\* stored is held
PutCountIncOpt ==
    /\ Optimised
    /\ Stmt("put_ninc", "put_max",
            [queue EXCEPT !.num_items =
                IF SizeT(held + 1) >= queue.size
                THEN queue.size ELSE SizeT(held + 1)])
    /\ held' = queue'.num_items
    /\ UNCHANGED <<op, obj, ret, fault, wild, alloc,
                   my_str, index, to_return, reg, iters, entry>>

\* if (self->num_items > self->max_full) self->max_full = self->num_items,
\* with the value held for num_items
PutMaxFullOpt ==
    /\ Optimised
    /\ Assign("put_max", AfterMax,
              IF held > queue.max_full
              THEN [queue EXCEPT !.max_full = held] ELSE queue)
    /\ StmtFrame

\* The steps of get in the build "Os" where they are not those of "O0".

\* self->read_idx++; if (self->read_idx >= self->size) self->read_idx = 0:
\* the store of the index after the one loaded for line 208
GetReadIncOpt ==
    /\ Optimised
    /\ Assign("get_rinc", "get_ndec",
              [queue EXCEPT !.read_idx = Wrapped(queue, reg)])
    /\ StmtFrame

\* self->num_items--; if ((int32_t)(self->num_items) <= 0) self->num_items
\* = 0: the store of the value held minus one, or of 0
GetCountDecOpt ==
    /\ Optimised
    /\ Assign("get_ndec", "get_ret",
              [queue EXCEPT !.num_items =
                  IF ToInt32(SizeT(held - 1)) <= 0 THEN 0 ELSE SizeT(held - 1)])
    /\ StmtFrame

\* The steps of the build "Os".
OptBody ==
    \/ PutWriteIncOpt \/ PutReadIncOpt \/ PutCountIncOpt \/ PutMaxFullOpt
    \/ GetReadIncOpt \/ GetCountDecOpt

\* The steps of a call which has begun: the program goes on to execute
\* them.
Running ==
    \/ PutBody \/ PutLoop \/ PutReturn
    \/ GetTest \/ GetBody \/ GetReturn

NextStmt ==
    \/ BeginPut \/ BeginGet \/ CallClear
    \/ PutBody \/ PutLoop \/ PutReturn
    \/ GetTest \/ GetBody \/ GetReturn

SpecStmt == InitStmt /\ [][NextStmt]_vars /\ WF_vars(Running)

\* The same steps on the queues of capacity 0 .. MaxCapRun: a queue of
\* capacity 1 is full after one put, so that every later put overwrites.
InitRun == Init /\ queue.size <= MaxCapRun

SpecRun == InitRun /\ [][NextStmt]_vars /\ WF_vars(Running)

\* The steps of one put (of one element), of the body of the loop of a
\* byte queue's put, and of one get.
PutLabels ==
    {"put_store", "put_winc", "put_wwrap", "put_full",
     "put_rinc", "put_rinc_st", "put_rwrap", "put_rwrap_st",
     "put_ninc", "put_ninc_st", "put_nclamp", "put_nclamp_st",
     "put_max", "put_max_st", "put_ret"}
LoopLabels == (PutLabels \ {"put_ret"}) \cup {"put_loop"}
GetLabels ==
    {"get_test", "get_idx", "get_load", "get_rinc", "get_rinc_st",
     "get_rwrap", "get_rwrap_st", "get_ndec", "get_ndec_st",
     "get_nclamp", "get_nclamp_st", "get_ret"}

\* The labels inside a statement: after the test of an if and before the
\* statement it guards, between the load and the store of an increment or
\* a decrement, and between the two loads of line 208.  At every other
\* label one statement has ended and the next has not begun.
InsideStatement ==
    {"put_rinc", "put_rinc_st", "put_rwrap_st", "put_ninc_st", "put_nclamp_st",
     "put_max_st", "get_load", "get_rinc_st", "get_rwrap_st", "get_ndec_st",
     "get_nclamp_st"}

\* ------------------------------------------------------------------------
\* One producer and one consumer, one of them an interrupt handler.  The
\* program calls one of put and get and executes it step by step; the
\* handler calls the other one, between any two steps of the program or
\* between two of its calls, and runs to its end before the program goes
\* on.

InitIsr ==
    /\ InitQueue
    /\ queue.size <= MaxCapStmt
    /\ twin = NoQueue
    /\ tret = NoArg
    /\ isr \in {"put", "get"}
    /\ build \in Builds
    /\ track = [NoTrack EXCEPT !.stamp = [i \in DOMAIN queue.p_data |-> 0]]

\* The observer after the handler has run at the program's label pc.
Cut(tr) ==
    [tr EXCEPT !.cut = tr.cut \/ pc # "idle",
               !.mid = tr.mid \/ pc \in InsideStatement]

\* What the handler's call leaves alone: the program's call, its result
\* and its local variables.
IsrFrame ==
    /\ UNCHANGED <<type, live, op, obj, arg, ret, alloc>>
    /\ UNCHANGED <<S, Sret, peak, phase, puts, gets, dropped,
                   twin, tret, isr, build>>
    /\ UNCHANGED locals

\* The observer after the handler's put of the elements elems on self.
RECURSIVE StampPut(_, _, _, _)
StampPut(t, self, tr, elems) ==
    IF elems = <<>> THEN tr
    ELSE StampPut(t, Put1(t, self, Head(elems)),
                  Stamped(tr, self.write_idx), Tail(elems))

\* The handler calls put: the whole method runs on the structure as the
\* program's get has left it so far.  The store of a put on capacity 0
\* goes outside the array, or it stops the program.
IsrPut ==
    /\ isr = "put" /\ live /\ ~fault
    /\ \E to_put \in PutArgs(type) :
         LET elems == Elems(type, to_put)
         IN  /\ elems # <<>>
             /\ track.nput + Len(elems) <= MaxPuts
             /\ wild' = (wild \/ queue.write_idx \notin DOMAIN queue.p_data)
             /\ \/ /\ queue' = put(type, queue, to_put).self
                   /\ track' = Cut(StampPut(type, queue, track, elems))
                   /\ UNCHANGED fault
                \* The first store, outside the array, stops the program
                \* instead.
                \/ /\ queue.write_idx \notin DOMAIN queue.p_data
                   /\ fault' = TRUE
                   /\ UNCHANGED <<queue, track>>
    /\ IsrFrame

\* The handler calls get: the whole method runs on the structure as the
\* program's put has left it so far.  On an empty queue it returns None.
\* A read_idx which is no index of the array makes the load undefined: it
\* yields what lies beyond the array, or it stops the program.
IsrGet ==
    /\ isr = "get" /\ live /\ ~fault
    /\ Len(track.got) < MaxGets
    /\ \/ /\ IF queue.num_items = 0
             THEN UNCHANGED queue /\ track' = Cut(track)
             ELSE \E v \in Loads(queue, queue.read_idx) :
                    /\ queue' = [get(type, [queue EXCEPT !.p_data =
                                     (queue.read_idx :> v) @@ queue.p_data]).self
                                    EXCEPT !.p_data = queue.p_data]
                    /\ track' = Cut([track EXCEPT
                                       !.got = Append(@, StampAt(track, queue.read_idx))])
          /\ UNCHANGED fault
       \/ /\ queue.num_items # 0
          /\ queue.read_idx \notin DOMAIN queue.p_data
          /\ fault' = TRUE
          /\ UNCHANGED <<queue, track>>
    /\ UNCHANGED wild
    /\ IsrFrame

NextIsr ==
    \/ BeginPut \/ BeginGet
    \/ PutBody \/ PutLoop \/ PutReturn
    \/ GetTest \/ GetBody \/ GetReturn
    \/ OptBody
    \/ IsrPut \/ IsrGet

SpecIsr == InitIsr /\ [][NextIsr]_vars

\* ------------------------------------------------------------------------
\* A cleared queue beside a new one.  When the program clears the queue it
\* also makes a second queue of the same class and capacity, the twin, and
\* from then on it gives every call to both.

InitTwin == Init /\ queue.size <= MaxCapStmt

\* The program has cleared the queue and made the twin.
HasTwin == tret # NoArg

\* What the calls on the two queues leave alone.
TwinFrame ==
    /\ UNCHANGED <<type, live, arg, wild, alloc, S, Sret, peak, phase, puts, gets>>
    /\ UNCHANGED <<locals, dropped, isr, build, track>>

\* A call of method `name` with argument o which returned r on the queue
\* and rt on the twin.
TwinCall(name, o, r, rt) ==
    /\ live /\ ~fault /\ pc = "idle"
    /\ op' = name
    /\ obj' = o
    /\ queue' = r.self
    /\ ret' = r.ret
    /\ twin' = IF HasTwin THEN rt.self ELSE twin
    /\ tret' = IF HasTwin THEN rt.ret ELSE tret
    /\ UNCHANGED fault
    /\ TwinFrame

\* q.clear() and t = IntQueue(size), FloatQueue(size) or ByteQueue(size).
TwinClear ==
    /\ live /\ ~fault /\ pc = "idle"
    /\ op' = "clear"
    /\ obj' = NoArg
    /\ queue' = clear(type, queue).self
    /\ ret' = clear(type, queue).ret
    /\ \E r \in make_new(type, <<mp_obj_new_int(queue.size)>>) :
         r.live /\ twin' = r.self
    /\ tret' = ret'
    /\ UNCHANGED fault
    /\ TwinFrame

\* q.put(x) and t.put(x).  The store of a put on capacity 0 goes outside
\* the array, or it stops the program.
TwinPut ==
    \E to_put \in PutArgs(type) :
        \/ TwinCall("put", to_put, put(type, queue, to_put), put(type, twin, to_put))
        \/ /\ live /\ ~fault /\ pc = "idle"
           /\ PutIsWild(type, queue, Elems(type, to_put))
           /\ fault' = TRUE
           /\ op' = "put"
           /\ obj' = to_put
           /\ ret' = [tag |-> "fault"]
           /\ tret' = IF HasTwin THEN ret' ELSE tret
           /\ UNCHANGED <<queue, twin>>
           /\ TwinFrame

TwinGet == TwinCall("get", NoArg, get(type, queue), get(type, twin))
TwinAny == TwinCall("any", NoArg, any(type, queue), any(type, twin))
TwinFull == TwinCall("full", NoArg, full(type, queue), full(type, twin))
TwinAvailable ==
    TwinCall("available", NoArg, available(type, queue), available(type, twin))
TwinMaxFull ==
    TwinCall("max_full", NoArg, max_full(type, queue), max_full(type, twin))

NextTwin ==
    \/ TwinClear \/ TwinPut \/ TwinGet
    \/ TwinAny \/ TwinFull \/ TwinAvailable \/ TwinMaxFull

SpecTwin == InitTwin /\ [][NextTwin]_vars

\* The statements of a call agree with the call as a whole: a put or get
\* which has returned leaves the structure and the result which the method
\* applied to the structure at the call yields.
StmtAgreesWithCall ==
    (pc = "idle" /\ op \in {"put", "get"}) =>
        LET r == IF op = "put" THEN put(type, entry, obj) ELSE get(type, entry)
        IN  queue = r.self /\ ret = r.ret

\* ------------------------------------------------------------------------
\* Properties.

\* The objects the four queries return in the current state.
IsAny == any(type, queue).ret.val
IsFull == full(type, queue).ret.val
NumAvailable == available(type, queue).ret.val
PeakUsage == max_full(type, queue).ret.val

\* The items of the queue in read order: the num_items elements at
\* read_idx, read_idx + 1, ... modulo size.
Contents ==
    [i \in 1 .. queue.num_items |->
        queue.p_data[(queue.read_idx + i - 1) % queue.size]]

\* C1: after any sequence of put, get and clear calls on a queue of any
\* capacity and any of the three classes, the number of items, which is
\* what available() returns, is at least 0 and at most size.
C1_CapacityBound ==
    /\ 0 <= queue.num_items
    /\ queue.num_items <= queue.size
    /\ NumAvailable \in 0 .. queue.size
    /\ (op = "available" => ret = mp_obj_new_int(queue.num_items))

\* More elements than the capacity were put into a new queue, and the
\* count stands at the capacity.
C1_Witness ==
    /\ op = "put" /\ phase = "put"
    /\ queue.size >= 1
    /\ Len(puts) > queue.size
    /\ queue.num_items = queue.size

\* C2: on a new queue of capacity C >= 1, N <= C puts of v1..vN followed by
\* gets: the first N gets return v1..vN in that order and every further get
\* returns None.
C2_FifoNoOverflow ==
    (phase = "get" /\ queue.size >= 1 /\ Len(puts) <= queue.size) =>
        \A i \in 1 .. Len(gets) :
            gets[i] = IF i <= Len(puts) THEN Wrap(type, puts[i])
                      ELSE mp_const_none

\* A new queue of capacity at least 2 was filled to its capacity, every
\* item was read back and one more get was made.
C2_Witness ==
    /\ phase = "get"
    /\ queue.size >= 2
    /\ Len(puts) = queue.size
    /\ Len(gets) > Len(puts)

\* C3: on a new queue of capacity C >= 1, N > C puts of v1..vN leave the
\* queue full with available() = C and max_full() = C; the C gets which
\* follow return v(N-C+1)..vN in order and the next get returns None.
C3_OverwriteOldest ==
    (phase \in {"put", "get"} /\ queue.size >= 1 /\ Len(puts) > queue.size) =>
        /\ phase = "put" => IsFull /\ NumAvailable = queue.size
        /\ PeakUsage = queue.size
        /\ \A i \in 1 .. Len(gets) :
               gets[i] = IF i <= queue.size
                         THEN Wrap(type, puts[Len(puts) - queue.size + i])
                         ELSE mp_const_none

\* More than C >= 2 elements were put into a new queue, then C + 1 gets
\* were made.
C3_Witness ==
    /\ phase = "get"
    /\ queue.size >= 2
    /\ Len(puts) > queue.size
    /\ Len(gets) = queue.size + 1

\* C4: for capacity C >= 1 and any interleaving of put, get and clear, the
\* queue is the abstract sequence S (put appends and drops the head if S
\* held C items, get removes and returns the head or returns None, clear
\* empties): available() = Len(S), the items at read_idx, read_idx + 1, ...
\* (mod C) are S, and get returns what the abstract get returns.
C4_Refinement ==
    queue.size >= 1 =>
        /\ NumAvailable = Len(S)
        /\ Contents = S
        /\ (op \in {"put", "get", "clear"} => ret = Sret)

\* A get returned an item from a queue whose contents wrap around the end
\* of the array, after puts, gets and a clear in some other order than
\* puts then gets.
C4_Witness ==
    /\ op = "get" /\ phase = "off"
    /\ ret # mp_const_none
    /\ Len(S) >= 2
    /\ queue.write_idx <= queue.read_idx

\* C5: max_full() is the largest value available() had at the end of any
\* call since make_new or the last clear, and is at most the capacity.
C5_HighWaterMark ==
    /\ PeakUsage = peak
    /\ PeakUsage <= queue.size
    /\ (op = "max_full" => ret = mp_obj_new_int(peak))

\* max_full() was called on a queue which had held two items or more, some
\* of which were read, after an earlier clear.
C5_Witness ==
    /\ op = "max_full" /\ phase = "off"
    /\ peak >= 2
    /\ queue.num_items < peak

\* C6: max_full >= num_items between calls, and no call but clear lowers
\* max_full.
C6_MaxFullMonotonic ==
    /\ [](queue.max_full >= queue.num_items)
    /\ [][op' # "clear" => queue'.max_full >= queue.max_full]_vars

\* A put into a queue which had been fuller: max_full stays above
\* num_items.
C6_Witness ==
    /\ op = "put"
    /\ queue.num_items >= 1
    /\ queue.max_full > queue.num_items

\* C7: right after clear(): available() = 0, any() is false, max_full() = 0,
\* both indices are 0, and full() is true exactly if the capacity is 0.
C7_ClearResets ==
    op = "clear" =>
        /\ NumAvailable = 0
        /\ IsAny = FALSE
        /\ PeakUsage = 0
        /\ queue.write_idx = 0
        /\ queue.read_idx = 0
        /\ queue.num_items = 0
        /\ queue.max_full = 0
        /\ IsFull = (queue.size = 0)

\* clear() was called on a queue of capacity at least 2 every element of
\* which had been written by a put.
C7_Witness ==
    /\ op = "clear"
    /\ queue.size >= 2
    /\ \A i \in DOMAIN queue.p_data : queue.p_data[i] \in Values

\* C8: get() on a queue with num_items = 0 returns None and changes no
\* field of the structure, however often it is called.
C8_EmptyGet ==
    [][(op' = "get" /\ queue.num_items = 0) =>
           (ret' = mp_const_none /\ queue' = queue)]_vars

\* get() returned None on a queue which had been used: the indices are not
\* at 0.
C8_Witness ==
    /\ op = "get"
    /\ ret = mp_const_none
    /\ queue.read_idx # 0
    /\ queue.max_full >= 1

\* C9: put of one element on a queue of capacity >= 1 signals no error; if
\* the queue was full (num_items >= size) it stores the element, moves
\* read_idx by one position modulo size and leaves num_items = size; if the
\* queue was not full it leaves read_idx alone and adds one to num_items.
C9_PutOnFull ==
    [][(op' = "put" /\ Len(arg') = 1 /\ queue.size >= 1) =>
           /\ ~fault'
           /\ ret' = mp_const_none
           /\ queue'.p_data[queue.write_idx] = arg'[1]
           /\ IF queue.num_items >= queue.size
              THEN /\ queue'.read_idx = (queue.read_idx + 1) % queue.size
                   /\ queue'.num_items = queue.size
              ELSE /\ queue'.read_idx = queue.read_idx
                   /\ queue'.num_items = queue.num_items + 1]_vars

\* One element was put into a full queue of capacity at least 2 whose read
\* index has moved on to the last position or wrapped.
C9_Witness ==
    /\ op = "put" /\ Len(arg) = 1
    /\ queue.size >= 2
    /\ phase = "put"
    /\ Len(puts) >= 2 * queue.size

\* C10: any(), full(), available() and max_full() change no field of the
\* structure and return num_items > 0, num_items >= size, num_items and
\* max_full.
C10_PureQueries ==
    [][/\ op' \in {"any", "full", "available", "max_full"} => queue' = queue
       /\ op' = "any" => ret' = mp_obj_new_bool(queue.num_items > 0)
       /\ op' = "full" => ret' = mp_obj_new_bool(queue.num_items >= queue.size)
       /\ op' = "available" => ret' = mp_obj_new_int(queue.num_items)
       /\ op' = "max_full" => ret' = mp_obj_new_int(queue.max_full)]_vars

\* full() returned True on a queue of capacity at least 2.
C10_Witness ==
    /\ op = "full"
    /\ ret = mp_obj_new_bool(TRUE)
    /\ queue.size >= 2

\* The structure after successive put calls on a byte queue, one call for
\* each single byte of elems, in order.
RECURSIVE PutEach(_, _)
PutEach(self, elems) ==
    IF elems = <<>> THEN self
    ELSE PutEach(ByteQueue_put(self, mp_obj_new_bytes(Head(elems))).self,
                 Tail(elems))

\* The last n elements of the sequence s.
LastN(s, n) == SubSeq(s, Len(s) - n + 1, Len(s))

\* C11: a put of the bytes b1 .. bn into a byte queue leaves the queue in
\* the state which n successive puts of the single bytes b1, ..., bn reach.
\* A put of no bytes changes nothing; a put of at least as many bytes as the
\* capacity leaves the last `size` bytes in the queue, oldest first; every
\* get which returns an item returns exactly one byte.
C11_BytePutIsEachPut ==
    [][/\ (type = "ByteQueue" /\ op' = "put" /\ ret' = mp_const_none) =>
            /\ queue' = PutEach(queue, arg')
            /\ arg' = <<>> => queue' = queue
            /\ (queue.size >= 1 /\ Len(arg') >= queue.size) =>
                   Contents' = LastN(arg', queue.size)
       /\ (type = "ByteQueue" /\ op' = "get" /\ ret' # mp_const_none) =>
            /\ ret'.tag = "bytes"
            /\ Len(ret'.val) = 1
            /\ ret'.val[1] = Contents[1]]_vars

\* A byte queue of capacity at least 1 has taken more bytes than its
\* capacity in one put, while it already held an item.
C11_Witness ==
    /\ type = "ByteQueue" /\ op = "put" /\ ret = mp_const_none
    /\ queue.size >= 1
    /\ Len(arg) > queue.size
    /\ phase = "put" /\ Len(puts) > Len(arg)
    /\ Contents = LastN(arg, queue.size)

\* C12: a put into a byte queue with an argument which is neither a string
\* nor a bytes object raises a TypeError and leaves every field of the
\* structure, the storage included, as it was.
C12_TypeMismatch ==
    [][(type = "ByteQueue" /\ op' = "put"
           /\ ~mp_obj_is_str_or_bytes(obj')) =>
          /\ ret'.tag = "TypeError"
          /\ queue' = queue]_vars

\* A put with an integer as its argument has raised the TypeError on a byte
\* queue which holds items.
C12_Witness ==
    /\ type = "ByteQueue" /\ op = "put"
    /\ obj.tag = "int"
    /\ ret.tag = "TypeError"
    /\ queue.num_items >= 1

\* C13: on a queue of capacity 0, after any calls, any() is False and
\* full() is True, and neither put nor get has changed an index, num_items,
\* max_full or any storage location: nothing was stored outside the (empty)
\* array and no store has stopped the program.
C13_ZeroCapacityInert ==
    (live /\ queue.size = 0) =>
        /\ ~IsAny
        /\ IsFull
        /\ queue.write_idx = 0 /\ queue.read_idx = 0
        /\ queue.num_items = 0 /\ queue.max_full = 0
        /\ ~wild
        /\ ~fault

\* C14: between the calls, write_idx and read_idx are indices of the
\* storage, 0 <= index < size, and no put or get has stored or loaded an
\* element at an index outside 0 .. size - 1.
C14_IndicesValid ==
    live =>
        /\ 0 <= queue.write_idx /\ queue.write_idx < queue.size
        /\ 0 <= queue.read_idx /\ queue.read_idx < queue.size
        /\ ~wild

\* C15: the queue which the constructor returns has num_items, write_idx,
\* read_idx and max_full 0 and the capacity asked for as its size; any()
\* is False on it and a get returns None.
C15_FreshQueue ==
    (op = "make_new" /\ live) =>
        /\ queue.num_items = 0 /\ queue.write_idx = 0
        /\ queue.read_idx = 0 /\ queue.max_full = 0
        /\ queue.size = mp_obj_get_int(obj)
        /\ ~IsAny
        /\ get(type, queue).ret = mp_const_none

\* The number of bytes in one element of a queue of class t.
ElementBytes(t) ==
    CASE t = "IntQueue" -> sizeof_int32_t
      [] t = "FloatQueue" -> sizeof_float
      [] t = "ByteQueue" -> sizeof_byte

\* The capacity o is no length of a storage (it is negative, or its number
\* of bytes is more than a size_t holds), or the heap cannot hold the
\* storage.
BadCapacity(t, o) ==
    /\ o.tag = "int"
    /\ \/ o.val < 0
       \/ o.val * ElementBytes(t) >= 2 ^ WordBits
       \/ o.val * ElementBytes(t) > HeapBytes

\* C16: the constructor called with a capacity which is no storage length,
\* or whose storage cannot be allocated, ends in an exception raised to the
\* caller, and no queue object comes to exist.
C16_ConstructionFails ==
    (op = "make_new" /\ BadCapacity(type, obj)) =>
        /\ ~live
        /\ ret.tag \in {"MemoryError", "TypeError", "OverflowError", "ValueError"}

\* C17: no call of put, get, clear, any, full, available or max_full which
\* returns to its caller on a constructed queue has allocated memory on the
\* heap.
C17_NoAllocation ==
    (/\ op \in {"put", "get", "clear", "any", "full", "available", "max_full"}
     /\ ret.tag \notin {"TypeError", "fault"}) =>
        ~alloc

\* C18: no call changes size or the storage pointer p_data of a constructed
\* queue; the pointer is the identity of the array, whose set of indices
\* stays what the constructor made it.
C18_SizeAndStorageFixed ==
    [][live =>
          /\ queue'.size = queue.size
          /\ DOMAIN queue'.p_data = DOMAIN queue.p_data]_vars

\* A get, after the puts have wrapped around a queue of capacity at least
\* 2, and a clear of a queue which had been filled.
C18_Witness ==
    /\ queue.size >= 2
    /\ DOMAIN queue.p_data = 0 .. queue.size - 1
    /\ \/ op = "get" /\ ret # mp_const_none
          /\ phase = "get" /\ Len(puts) > queue.size
       \/ op = "clear" /\ peak = 0 /\ queue.max_full = 0
          /\ queue.p_data[0] \notin Uninit

\* C19: in every state between two statements of a running put or get, on
\* a queue of capacity at least 1, num_items is at least 0 and at most size
\* and write_idx and read_idx are less than size.
C19_MidOperationInvariant ==
    (pc # "idle" /\ pc \notin InsideStatement /\ queue.size >= 1) =>
        /\ 0 <= queue.num_items /\ queue.num_items <= queue.size
        /\ queue.write_idx < queue.size
        /\ queue.read_idx < queue.size

\* C20: every call returns: a put or get which has begun reaches its
\* return, on a full queue as on any other, and no step of it waits.  A
\* put on an integer or float queue and a get execute no more steps than
\* the method has, and a put of n bytes on a byte queue returns after
\* exactly n executions of the loop's body.  No statement of put or get
\* waits or loops on the queue's state; the only call which may not reach
\* its return is a put on capacity 0, whose store outside the array is
\* undefined and may stop the program as well as go on to the return.
C20_NoBlocking ==
    /\ [](/\ (pc = "idle" /\ op = "put" /\ type # "ByteQueue") =>
                steps <= Cardinality(PutLabels)
          /\ (pc = "idle" /\ op = "get") =>
                steps <= Cardinality(GetLabels)
          /\ (pc = "idle" /\ op = "put" /\ type = "ByteQueue") =>
                /\ iters = Len(my_str)
                /\ steps <= Len(my_str) * Cardinality(LoopLabels) + 1)
    /\ (pc # "idle") ~> (pc = "idle" \/ fault)

\* A put of two bytes on a full byte queue has returned after two
\* executions of the loop's body.
C20_Witness ==
    /\ type = "ByteQueue" /\ op = "put" /\ pc = "idle" /\ ret = mp_const_none
    /\ Len(my_str) = 2 /\ iters = 2
    /\ queue.size >= 1 /\ entry.num_items = entry.size
    /\ queue.num_items = queue.size

\* C25: between two calls, on a queue of capacity at least 1, write_idx is
\* (read_idx + num_items) modulo size, and write_idx equals read_idx
\* exactly when the queue is empty or full.
C25_CursorRelation ==
    (live /\ queue.size >= 1) =>
        /\ queue.write_idx = (queue.read_idx + queue.num_items) % queue.size
        /\ (queue.write_idx = queue.read_idx) <=>
               (queue.num_items = 0 \/ queue.num_items = queue.size)

\* A full queue whose oldest item a put has overwritten, so that the two
\* indices meet away from 0; and the queue a get has emptied there.
C25_Witness ==
    /\ queue.size >= 2
    /\ queue.write_idx = queue.read_idx /\ queue.read_idx > 0
    /\ \/ op = "put" /\ queue.num_items = queue.size /\ dropped
       \/ op = "get" /\ queue.num_items = 0 /\ ret # mp_const_none

\* C26: while max_full() is less than the capacity, no put has overwritten
\* an item since the queue was made or last cleared; once a put has
\* overwritten one, max_full() is the capacity until the next clear.
C26_MaxFullTellsDrop ==
    live =>
        /\ (PeakUsage < queue.size) => ~dropped
        /\ dropped => PeakUsage = queue.size

\* Puts and gets on a queue of capacity 3 which never held more than two
\* items: write_idx has wrapped and nothing was dropped.
C26_Witness ==
    /\ queue.size = 3 /\ op = "put" /\ PeakUsage = 2 /\ ~dropped
    /\ queue.write_idx < queue.read_idx

\* C27: clear() writes write_idx, read_idx, num_items and max_full and
\* nothing else: every storage element keeps its value, and size and
\* p_data are what they were.
C27_ClearFrame ==
    [][op' = "clear" =>
          /\ queue'.p_data = queue.p_data
          /\ queue'.size = queue.size
          /\ queue' = [queue EXCEPT !.write_idx = queue'.write_idx,
                                    !.read_idx = queue'.read_idx,
                                    !.num_items = queue'.num_items,
                                    !.max_full = queue'.max_full]
          /\ type' = type /\ live' = live]_vars

\* A clear of a queue which holds items, every storage element written by
\* a put and still there after the clear.
C27_Witness ==
    /\ op = "clear" /\ queue.size >= 2
    /\ S = <<>> /\ NumAvailable = 0
    /\ \A i \in DOMAIN queue.p_data : queue.p_data[i] \in Values

\* The capacity, the two indices and the two counters of a structure.
Indices(self) ==
    <<self.size, self.write_idx, self.read_idx, self.num_items, self.max_full>>

\* C29: the three classes run one algorithm.  The constructors of the
\* three classes make the same indices and counters for the same capacity,
\* and whatever call the queue is given (a put of one element, a get, a
\* clear or a query), the method of each of the other classes, applied to
\* the same indices and counters, leaves the indices and counters which
\* the call left, get returns None for all or for none, and the queries
\* return the same objects.
C29_SameAlgorithm ==
    /\ \A t \in Types :
          \E r \in make_new(t, <<obj>>) : r.live /\ Indices(r.self) = Indices(queue)
    /\ [][\A t \in Types \ {type} :
            /\ (op' = "put" /\ Len(Elems(type, obj')) = 1 /\ ~fault') =>
                  Indices(put(t, queue, Wrap(t, Elems(type, obj')[1])).self)
                      = Indices(queue')
            /\ op' = "get" =>
                  /\ Indices(get(t, queue).self) = Indices(queue')
                  /\ (get(t, queue).ret = mp_const_none) <=> (ret' = mp_const_none)
            /\ op' = "clear" => Indices(clear(t, queue).self) = Indices(queue')
            /\ op' = "any" => any(t, queue) = [self |-> queue', ret |-> ret']
            /\ op' = "full" => full(t, queue) = [self |-> queue', ret |-> ret']
            /\ op' = "available" =>
                  available(t, queue) = [self |-> queue', ret |-> ret']
            /\ op' = "max_full" =>
                  max_full(t, queue) = [self |-> queue', ret |-> ret']]_vars

\* A put of one byte on a full byte queue, which moves both indices as
\* the put of an integer or a float does.
C29_Witness ==
    /\ type = "ByteQueue" /\ op = "put" /\ Len(Elems(type, obj)) = 1
    /\ queue.size >= 2 /\ queue.num_items = queue.size
    /\ queue.read_idx = 1 /\ queue.write_idx = 1

\* C30: a get on a queue which holds num_items >= 1 items leaves
\* num_items - 1, for every capacity a size_t can hold; num_items becomes 0
\* only if num_items - 1 is 0.
C30_GetDecrements ==
    [][(op' = "get" /\ queue.num_items >= 1) =>
          /\ queue'.num_items = queue.num_items - 1
          /\ (queue'.num_items = 0) => (queue.num_items - 1 = 0)]_vars

\* C28: a cleared queue is a new queue.  From the clear on, every call
\* (put, get, any, full, available, max_full) returns on the cleared queue
\* what it returns on a queue of the same capacity made when the first was
\* cleared, whatever its new storage holds, so that no get returns a value
\* stored before the clear; the two have the same indices and counters;
\* and clearing the cleared queue once more changes nothing.
C28_ClearIsFresh ==
    [][/\ (tret' # NoArg) =>
             /\ ret' = tret'
             /\ Indices(queue') = Indices(twin')
       /\ (op' = "clear") => clear(type, queue').self = queue']_vars

\* After a clear of a queue of capacity 2 which held items, a put and a
\* get: the get returns on both queues the value put after the clear,
\* while the storages of the two still differ.
C28_Witness ==
    /\ HasTwin /\ op = "get" /\ ret.tag \notin {"None", "fault"}
    /\ ret = tret
    /\ queue.size = 2 /\ queue.read_idx = 1
    /\ queue.p_data[1] \in Values /\ twin.p_data[1] \in Uninit

\* The step is one of a running put or get which writes write_idx or
\* read_idx.
CursorWritten ==
    /\ pc # "idle"
    /\ \/ WritesCursor(pc)
       \/ queue'.write_idx # queue.write_idx
       \/ queue'.read_idx # queue.read_idx

\* C24 as stated: within a put or a get, once num_items has been written
\* no statement of that call writes write_idx or read_idx.
C24_CountAfterCursors ==
    [][CursorWritten => counted = 0]_vars

\* C24, for each element: a get, and each execution of the body of put
\* (the whole put of an integer or a float, one iteration of the loop of a
\* byte queue's put), writes write_idx and read_idx before it writes
\* num_items; and the call has written num_items for every element
\* before the one it is storing.
C24_CountAfterCursorsEach ==
    [][/\ CursorWritten => counted < Iteration
       /\ (pc = "put_store" /\ pc' = "put_winc") => counted = iters]_vars

\* The second iteration of a byte queue's put is about to increment
\* write_idx; the first iteration has written num_items.
C24_Witness ==
    /\ type = "ByteQueue" /\ op = "put"
    /\ pc = "put_winc" /\ iters = 2 /\ counted = 1
    /\ queue.size >= 1

\* No call of the program is running, and the handler has run inside the
\* program's last call; whenever it has run inside a call, it has run
\* between two statements of it.
BothCompleted == pc = "idle" /\ track.cut /\ ~track.mid

\* The indices and the counter of a queue of capacity at least 1 fit
\* together.
Consistent ==
    /\ 0 <= queue.num_items /\ queue.num_items <= queue.size
    /\ queue.read_idx < queue.size
    /\ queue.write_idx < queue.size
    /\ queue.write_idx = (queue.read_idx + queue.num_items) % queue.size

\* The puts whose elements are in the storage and which no get has
\* returned.
NotReturned ==
    {track.stamp[i] : i \in DOMAIN track.stamp} \
        ({0} \cup {track.got[k] : k \in DOMAIN track.got})

\* C21: put is the interrupt handler and preempts a get of the program
\* between two of its statements.  When both have returned, on a queue of
\* capacity at least 1, num_items is at most size, both indices are less
\* than size, and write_idx is (read_idx + num_items) modulo size.
C21_PutPreemptsGet ==
    (isr = "put" /\ BothCompleted /\ queue.size >= 1) => Consistent

\* C22: get is the interrupt handler and preempts a put of the program
\* between two of its statements.  When both have returned, on a queue of
\* capacity at least 1, the indices and the counter fit together and
\* num_items is the number of elements stored and not yet returned.
C22_GetPreemptsPut ==
    (isr = "get" /\ BothCompleted /\ queue.size >= 1) =>
        /\ Consistent
        /\ queue.num_items = Cardinality(NotReturned)

\* C23: with either of put and get as the interrupt handler, the elements
\* the gets return are elements put, in the order of the puts: each has
\* been written by a put, and by a later put than the one returned
\* before it.
C23_FifoUnderPreemption ==
    (isr # "none" /\ queue.size >= 1 /\ ~track.mid) =>
        /\ \A k \in DOMAIN track.got : track.got[k] >= 1
        /\ \A j, k \in DOMAIN track.got : j < k => track.got[j] < track.got[k]

\* C31: the storage of a queue which the constructor has made holds exactly
\* size elements: the number of bytes asked of the allocator,
\* sizeof(element) * size, is the product in the integers and has not
\* wrapped around the word, and every index 0 .. size - 1 is an index of
\* the storage.
C31_StorageHoldsSize ==
    (op = "make_new" /\ live) =>
        /\ ElementBytes(type) * queue.size < 2 ^ WordBits
        /\ DOMAIN queue.p_data = 0 .. queue.size - 1

\* An object which is no number for a queue of class t: None, a string or a
\* bytes object, and for an integer queue also a float.
NotANumber(t, o) ==
    \/ o.tag \in {"None", "str", "bytes"}
    \/ t = "IntQueue" /\ o.tag = "float"

\* C32: put of an IntQueue or a FloatQueue, called with an object which
\* cannot be converted to the element type, ends in a TypeError and has
\* changed no field: write_idx, read_idx, num_items, max_full and the
\* contents of the storage are those before the call.
C32_ConversionFirst ==
    [][(/\ op' = "put"
        /\ type \in {"IntQueue", "FloatQueue"}
        /\ NotANumber(type, obj')) =>
           /\ ret'.tag = "TypeError"
           /\ queue' = queue]_vars

\* A queue holding one item of two has refused a float (IntQueue).
C32_Witness ==
    /\ op = "put" /\ type = "IntQueue" /\ obj = mp_obj_new_float(1)
    /\ ret.tag = "TypeError"
    /\ queue.size = 2 /\ queue.num_items = 1 /\ queue.write_idx = 1

====
